---------------------------- MODULE Spec2Model ----------------------------
(***************************************************************************)
(* ui5-plugin-loader: the plugin discovery and ordering pipeline of        *)
(* lib/core.js (manifest store, the eight pipeline stages, the pipeline    *)
(* driver) as a state machine.                                             *)
(*                                                                         *)
(* Representation of JavaScript values                                     *)
(*   string     a tuple of one-character strings (its code units)          *)
(*   undefined  JsUndefined; an object property that is absent is simply   *)
(*              not in the DOMAIN of the function that models the object   *)
(*   null       JsNull                                                     *)
(*   object     a function from property names to values                   *)
(*   array      a sequence                                                 *)
(***************************************************************************)
EXTENDS Integers, Sequences, FiniteSets, TLC

(***************************************************************************)
(* Bounds of the model.                                                    *)
(***************************************************************************)
\* the host invokes processPipeline at most this many times
MaxRuns == 2
\* direct calls of a stage function pass at most this many descriptors
MaxListLen == 3
MaxInits == 2
MaxHandlers == 3
\* the host dispatches at most this many requests whose chains may interleave
MaxRequests == 2

(***************************************************************************)
(* JavaScript values.                                                      *)
(***************************************************************************)
JsUndefined == <<"undefined">>
JsNull == <<"null">>

\* o[k] of JavaScript: undefined when the property is absent
Get(o, k) == IF k \in DOMAIN o THEN o[k] ELSE JsUndefined

\* o with property k set to v
Put(o, k, v) == [x \in (DOMAIN o) \cup {k} |-> IF x = k THEN v ELSE o[x]]

\* delete o[k]
Delete(o, k) == [x \in (DOMAIN o) \ {k} |-> o[x]]

\* {...a, ...b}
Spread(a, b) == [x \in (DOMAIN a) \cup (DOMAIN b) |-> IF x \in DOMAIN b THEN b[x] ELSE a[x]]

\* ToBoolean of a string-or-undefined-or-null value
Truthy(v) == v # JsUndefined /\ v # JsNull /\ v # <<>>

\* ToString of a string-or-undefined-or-null value
ToStr(v) ==
    IF v = JsUndefined THEN <<"u", "n", "d", "e", "f", "i", "n", "e", "d">>
    ELSE IF v = JsNull THEN <<"n", "u", "l", "l">>
    ELSE v

(***************************************************************************)
(* Characters: the code units 45..122, in code-unit order (code units 92  *)
(* and 96 are held by placeholders).                                       *)
(***************************************************************************)
AsciiTable ==
    <<"-", ".", "/", "0", "1", "2", "3", "4", "5", "6", "7", "8", "9", ":",
      ";", "<", "=", ">", "?", "@", "A", "B", "C", "D", "E", "F", "G", "H",
      "I", "J", "K", "L", "M", "N", "O", "P", "Q", "R", "S", "T", "U", "V",
      "W", "X", "Y", "Z", "[", "(backslash)", "]", "^", "_", "(backtick)", "a", "b", "c", "d",
      "e", "f", "g", "h", "i", "j", "k", "l", "m", "n", "o", "p", "q", "r",
      "s", "t", "u", "v", "w", "x", "y", "z">>

IndexOf(c, tbl) == CHOOSE i \in 1..Len(tbl) : tbl[i] = c

CharSet == {AsciiTable[i] : i \in 1..Len(AsciiTable)}

\* the UTF-16 code unit of each character
CodeUnitTable == [c \in CharSet |-> 44 + IndexOf(c, AsciiTable)]

CodeUnit(c) == CodeUnitTable[c]

LowerLetters == {AsciiTable[i] : i \in 53..78}
UpperLetters == {AsciiTable[i] : i \in 21..46}
Digits == {AsciiTable[i] : i \in 4..13}

\* the lowercase form of each character
LowerTable ==
    [c \in CharSet |-> IF c \in UpperLetters THEN AsciiTable[IndexOf(c, AsciiTable) + 32] ELSE c]

ToLowerChar(c) == LowerTable[c]

ToLower(s) == [i \in 1..Len(s) |-> ToLowerChar(s[i])]

\* s contains p as a contiguous substring
Contains(s, p) ==
    \E i \in 0..(Len(s) - Len(p)) : \A j \in 1..Len(p) : s[i + j] = p[j]

(***************************************************************************)
(* String.prototype.localeCompare.  Its result is implementation-defined:  *)
(* a Node.js build with ICU compares by collation keys (root collation:    *)
(* punctuation _ - . @ / before digits before letters, case only as a      *)
(* tie-break with lowercase first); a build without Intl compares code     *)
(* units.  The build is part of the environment (variable collation).      *)
(***************************************************************************)
IcuTable ==
    <<"_", "-", ";", ":", "?", ".", "[", "]", "@", "/", "(backslash)", "(backtick)", "^", "<",
      "=", ">", "0", "1", "2", "3", "4", "5", "6", "7", "8", "9", "a", "b",
      "c", "d", "e", "f", "g", "h", "i", "j", "k", "l", "m", "n", "o", "p",
      "q", "r", "s", "t", "u", "v", "w", "x", "y", "z">>

\* primary collation weight of each character (case is not primary)
IcuPrimaryTable == [c \in CharSet |-> IndexOf(LowerTable[c], IcuTable)]

IcuPrimary(c) == IcuPrimaryTable[c]

\* tertiary weight: lowercase sorts before uppercase
IcuTertiary(c) == IF c \in UpperLetters THEN 1 ELSE 0

MinOf(S) == CHOOSE x \in S : \A y \in S : x <= y

\* three-way lexicographic comparison of two sequences of integers
LexCompare(ka, kb) ==
    LET n == IF Len(ka) < Len(kb) THEN Len(ka) ELSE Len(kb)
        diff == {i \in 1..n : ka[i] # kb[i]}
    IN  IF diff = {}
        THEN IF Len(ka) < Len(kb) THEN -1 ELSE IF Len(ka) > Len(kb) THEN 1 ELSE 0
        ELSE IF ka[MinOf(diff)] < kb[MinOf(diff)] THEN -1 ELSE 1

OrdinalCompare(a, b) ==
    LexCompare([i \in 1..Len(a) |-> CodeUnit(a[i])], [i \in 1..Len(b) |-> CodeUnit(b[i])])

IcuCompare(a, b) ==
    LET p == LexCompare([i \in 1..Len(a) |-> IcuPrimary(a[i])],
                        [i \in 1..Len(b) |-> IcuPrimary(b[i])])
    IN  IF p # 0 THEN p
        ELSE LexCompare([i \in 1..Len(a) |-> IcuTertiary(a[i])],
                        [i \in 1..Len(b) |-> IcuTertiary(b[i])])

\* a.localeCompare(b) under the build's collation coll
LocaleCompare(coll, a, b) ==
    IF coll = "icu" THEN IcuCompare(a, b) ELSE OrdinalCompare(a, b)

(***************************************************************************)
(* Names used by the code.                                                 *)
(***************************************************************************)
StrStringreplace == <<"s", "t", "r", "i", "n", "g", "r", "e", "p", "l", "a", "c", "e">>
StrTranspile == <<"t", "r", "a", "n", "s", "p", "i", "l", "e">>
StrModules == <<"m", "o", "d", "u", "l", "e", "s">>
StrLivereload == <<"l", "i", "v", "e", "r", "e", "l", "o", "a", "d">>
StrCompression == <<"c", "o", "m", "p", "r", "e", "s", "s", "i", "o", "n">>
StrCsp == <<"c", "s", "p">>
StrCors == <<"c", "o", "r", "s">>
StrReplaceVersion == <<"r", "e", "p", "l", "a", "c", "e", "V", "e", "r", "s", "i", "o", "n">>
StrReplaceCopyright ==
    <<"r", "e", "p", "l", "a", "c", "e", "C", "o", "p", "y", "r", "i", "g", "h", "t">>
StrReplaceToken == <<"r", "e", "p", "l", "a", "c", "e", "T", "o", "k", "e", "n">>

(***************************************************************************)
(* Pipeline stages 3 to 8 (pure functions of lists of descriptors).        *)
(***************************************************************************)
\* Array.prototype.includes
Includes(list, v) == \E i \in 1..Len(list) : list[i] = v

\* Body applied to the value of v, which is computed once
With(v, Body(_)) == CHOOSE r \in {Body(x) : x \in {v}} : TRUE

\* Array.prototype.map
MapSeq(F(_), list) == [i \in 1..Len(list) |-> F(list[i])]

\* the elements of list at the positions in keep, in list order
AtPositions(list, keep) ==
    [k \in 1..Cardinality(keep) |->
        list[CHOOSE x \in keep : Cardinality({y \in keep : y < x}) = k - 1]]

\* faulty variant of applyDisable: the filter is inverted
ApplyDisableInverted(extensions, disableList) ==
    IF Len(disableList) = 0
    THEN extensions
    ELSE SelectSeq(extensions, LAMBDA ext : Includes(disableList, Get(ext, "name")))

\* faulty variant of applyDisable: only the first descriptor of a disabled
\* name is dropped
ApplyDisableFirstOnly(extensions, disableList) ==
    LET keep == {i \in 1..Len(extensions) :
                    \/ ~Includes(disableList, Get(extensions[i], "name"))
                    \/ \E j \in 1..(i - 1) :
                          Get(extensions[j], "name") = Get(extensions[i], "name")}
    IN  AtPositions(extensions, keep)

\* Step 3
ApplyDisable(extensions, disableList) ==
    IF Len(disableList) = 0
    THEN extensions
    ELSE SelectSeq(extensions, LAMBDA ext : ~Includes(disableList, Get(ext, "name")))

\* faulty variant of the default: only the after property is looked at
FillDefaultsOneIgnoresBefore(ext) ==
    LET mw == IF Get(ext, "type") = "middleware" /\ ~Truthy(Get(ext, "afterMiddleware"))
              THEN Put(ext, "afterMiddleware", StrCompression)
              ELSE ext
    IN  IF Get(ext, "type") = "task" /\ ~Truthy(Get(ext, "afterTask"))
        THEN Put(mw, "afterTask", StrReplaceVersion)
        ELSE mw

\* the map callback of fillDefaults: a copy, with the default for its type
\* when neither order property of that type has a value
FillDefaultsOne(ext) ==
    LET mw == IF Get(ext, "type") = "middleware"
                 /\ ~Truthy(Get(ext, "afterMiddleware"))
                 /\ ~Truthy(Get(ext, "beforeMiddleware"))
              THEN Put(ext, "afterMiddleware", StrCompression)
              ELSE ext
    IN  IF Get(ext, "type") = "task"
           /\ ~Truthy(Get(ext, "afterTask"))
           /\ ~Truthy(Get(ext, "beforeTask"))
        THEN Put(mw, "afterTask", StrReplaceVersion)
        ELSE mw

\* Step 4
FillDefaults(extensions) == MapSeq(FillDefaultsOne, extensions)

\* faulty variant of the order property update: the conflicting property stays
OverrideHintKeepsConflicting(updated, override, key, conflicting) ==
    IF key \in DOMAIN override
    THEN Put(updated, key, override[key])
    ELSE updated

\* one order property of the patch: set it and delete the conflicting one
OverrideHint(updated, override, key, conflicting) ==
    IF key \in DOMAIN override
    THEN Delete(Put(updated, key, override[key]), conflicting)
    ELSE updated

\* faulty variant of the patch: the configuration of the patch replaces the
\* descriptor's instead of being merged over it
ApplyOverrideOneReplaces(ext, override) ==
    LET u1 == OverrideHint(ext, override, "afterMiddleware", "beforeMiddleware")
        u2 == OverrideHint(u1, override, "beforeMiddleware", "afterMiddleware")
        u3 == OverrideHint(u2, override, "afterTask", "beforeTask")
        u4 == OverrideHint(u3, override, "beforeTask", "afterTask")
        u5 == IF "mountPath" \in DOMAIN override
              THEN Put(u4, "mountPath", override["mountPath"])
              ELSE u4
    IN  IF "configuration" \in DOMAIN override
        THEN Put(u5, "configuration", override["configuration"])
        ELSE u5

ApplyOverrideOne(ext, override) ==
    LET u1 == OverrideHint(ext, override, "afterMiddleware", "beforeMiddleware")
        u2 == OverrideHint(u1, override, "beforeMiddleware", "afterMiddleware")
        u3 == OverrideHint(u2, override, "afterTask", "beforeTask")
        u4 == OverrideHint(u3, override, "beforeTask", "afterTask")
        u5 == IF "mountPath" \in DOMAIN override
              THEN Put(u4, "mountPath", override["mountPath"])
              ELSE u4
    IN  IF "configuration" \in DOMAIN override
        THEN Put(u5, "configuration",
                 Spread(IF "configuration" \in DOMAIN u5 THEN u5["configuration"] ELSE <<>>,
                        override["configuration"]))
        ELSE u5

\* Step 5
ApplyOverride(extensions, overrideMap) ==
    IF DOMAIN overrideMap = {}
    THEN extensions
    ELSE MapSeq(LAMBDA ext : IF Get(ext, "name") \in DOMAIN overrideMap
                             THEN ApplyOverrideOne(ext, overrideMap[Get(ext, "name")])
                             ELSE ext,
                extensions)

\* the middleware and the tasks that are always available
BuiltinMiddleware == {StrCompression, StrCsp, StrCors}

BuiltinTasks == {StrReplaceVersion, StrReplaceCopyright, StrReplaceToken}

\* the order property key of ext has a value that is neither the name of an
\* extension of the list nor built in
UnknownRef(ext, key, extensionNames, builtin) ==
    /\ Truthy(Get(ext, key))
    /\ ext[key] \notin extensionNames
    /\ ext[key] \notin builtin

\* the warnings for one extension, in the order they are logged
RefWarnings(ext, extensionNames) ==
    IF Get(ext, "type") = "middleware"
    THEN (IF UnknownRef(ext, "afterMiddleware", extensionNames, BuiltinMiddleware)
          THEN <<[name |-> Get(ext, "name"), key |-> "afterMiddleware",
                  target |-> ext["afterMiddleware"]]>> ELSE <<>>)
         \o (IF UnknownRef(ext, "beforeMiddleware", extensionNames, BuiltinMiddleware)
             THEN <<[name |-> Get(ext, "name"), key |-> "beforeMiddleware",
                     target |-> ext["beforeMiddleware"]]>> ELSE <<>>)
    ELSE IF Get(ext, "type") = "task"
    THEN (IF UnknownRef(ext, "afterTask", extensionNames, BuiltinTasks)
          THEN <<[name |-> Get(ext, "name"), key |-> "afterTask",
                  target |-> ext["afterTask"]]>> ELSE <<>>)
         \o (IF UnknownRef(ext, "beforeTask", extensionNames, BuiltinTasks)
             THEN <<[name |-> Get(ext, "name"), key |-> "beforeTask",
                     target |-> ext["beforeTask"]]>> ELSE <<>>)
    ELSE <<>>

\* what validateRefs logs at warning level
RECURSIVE ValidateRefsWarnings(_, _)
ValidateRefsWarnings(extensions, i) ==
    IF i > Len(extensions) THEN <<>>
    ELSE RefWarnings(extensions[i],
                     {Get(extensions[j], "name") : j \in 1..Len(extensions)})
         \o ValidateRefsWarnings(extensions, i + 1)

\* faulty variant of validateRefs: an extension with an unknown target is dropped
ValidateRefsDropsUnknown(extensions) ==
    SelectSeq(extensions,
              LAMBDA ext : RefWarnings(ext, {Get(extensions[j], "name") :
                                               j \in 1..Len(extensions)}) = <<>>)

\* Step 6: returns the array it was given (it only logs)
ValidateRefs(extensions) == extensions

\* faulty variant of deduplicate: the last descriptor of a name is kept
DeduplicateKeepsLast(extensions) ==
    AtPositions(extensions,
                {i \in 1..Len(extensions) :
                    \A j \in (i + 1)..Len(extensions) :
                       Get(extensions[j], "name") # Get(extensions[i], "name")})

\* faulty variant of deduplicate: names are tracked per type
DeduplicatePerType(extensions) ==
    AtPositions(extensions,
                {i \in 1..Len(extensions) :
                    \A j \in 1..(i - 1) :
                       \/ Get(extensions[j], "name") # Get(extensions[i], "name")
                       \/ Get(extensions[j], "type") # Get(extensions[i], "type")})

\* faulty variant of deduplicate: a repeated name is forgotten when it is
\* dropped, so its next occurrence is kept again
DeduplicateForgets(extensions) ==
    AtPositions(extensions,
                {i \in 1..Len(extensions) :
                    Cardinality({j \in 1..(i - 1) :
                                    Get(extensions[j], "name") = Get(extensions[i], "name")})
                       % 2 = 0})

RECURSIVE DeduplicateFrom(_, _, _, _)
DeduplicateFrom(extensions, i, seen, deduplicated) ==
    IF i > Len(extensions) THEN deduplicated
    ELSE IF Get(extensions[i], "name") \in seen
         THEN DeduplicateFrom(extensions, i + 1, seen, deduplicated)
         ELSE DeduplicateFrom(extensions, i + 1, seen \cup {Get(extensions[i], "name")},
                              Append(deduplicated, extensions[i]))

\* Step 7
Deduplicate(extensions) == DeduplicateFrom(extensions, 1, {}, <<>>)

\* faulty variant of the priority: modules is tested before transpile
SmartOrderModulesFirst(name) ==
    IF Contains(ToLower(ToStr(name)), StrStringreplace) THEN 10
    ELSE IF Contains(ToLower(ToStr(name)), StrModules) THEN 30
    ELSE IF Contains(ToLower(ToStr(name)), StrTranspile) THEN 20
    ELSE IF Contains(ToLower(ToStr(name)), StrLivereload) THEN 40
    ELSE 50

\* the priority of a name: the first matching pattern, tested case-insensitively
\* (RegExp.prototype.test converts its argument to a string)
SmartOrder(name) ==
    IF Contains(ToLower(ToStr(name)), StrStringreplace) THEN 10
    ELSE IF Contains(ToLower(ToStr(name)), StrTranspile) THEN 20
    ELSE IF Contains(ToLower(ToStr(name)), StrModules) THEN 30
    ELSE IF Contains(ToLower(ToStr(name)), StrLivereload) THEN 40
    ELSE 50

\* faulty variant of the comparator: a descriptor with a before hint goes first
SortCompareHintFirst(coll, a, b) ==
    IF Truthy(Get(a, "beforeMiddleware")) # Truthy(Get(b, "beforeMiddleware"))
    THEN IF Truthy(Get(a, "beforeMiddleware")) THEN -1 ELSE 1
    ELSE IF a["_smartOrder"] # b["_smartOrder"]
    THEN a["_smartOrder"] - b["_smartOrder"]
    ELSE LocaleCompare(coll, a["name"], ToStr(Get(b, "name")))

\* the comparator of the sort: negative, zero or positive
SortCompare(coll, a, b) ==
    IF a["_smartOrder"] # b["_smartOrder"]
    THEN a["_smartOrder"] - b["_smartOrder"]
    ELSE LocaleCompare(coll, a["name"], ToStr(Get(b, "name")))

\* the comparator throws a TypeError: the priorities are equal and a has no
\* name to call localeCompare on (a missing b.name is converted to a string)
CompareThrows(a, b) ==
    /\ a["_smartOrder"] = b["_smartOrder"]
    /\ ~Truthy(Get(a, "name"))

\* insert x after the last element that does not compare greater (stable);
\* x is compared with the elements from the right until that one is found
InsertSorted(coll, sorted, x) ==
    LET throwing == {i \in 1..Len(sorted) : CompareThrows(x, sorted[i])}
        notGreater == {i \in (1..Len(sorted)) \ throwing : SortCompare(coll, x, sorted[i]) >= 0}
        k == IF notGreater = {} THEN 0 ELSE CHOOSE i \in notGreater : \A j \in notGreater : j <= i
    IN  IF \E i \in throwing : i > k
        THEN [threw |-> TRUE]
        ELSE [threw |-> FALSE,
              value |-> SubSeq(sorted, 1, k) \o <<x>> \o SubSeq(sorted, k + 1, Len(sorted))]

\* the first n elements of list, sorted, unless a comparison threw
RECURSIVE SortPrefix(_, _, _)
SortPrefix(coll, list, n) ==
    IF n = 0 THEN [threw |-> FALSE, value |-> <<>>]
    ELSE With(SortPrefix(coll, list, n - 1),
              LAMBDA sorted : IF sorted["threw"] THEN sorted
                              ELSE InsertSorted(coll, sorted["value"], list[n]))

\* Array.prototype.sort: a stable sort under the comparator
StableSort(coll, list) == SortPrefix(coll, list, Len(list))

\* Step 8: the sorted list, or the comparator's exception
SmartSort(coll, extensions) ==
    With(MapSeq(LAMBDA ext : Put(ext, "_smartOrder", SmartOrder(Get(ext, "name"))), extensions),
         LAMBDA withOrder : StableSort(coll, withOrder))

(***************************************************************************)
(* Descriptor store.  A file is [state |-> "absent"], [state |->           *)
(* "unreadable"] (it exists, reading it throws), [state |-> "garbled"] (its *)
(* text is not JSON) or [state |-> "json", value |-> v] with v the value   *)
(* its text parses to: [kind |-> "null"] or [kind |-> "object", props |->  *)
(* the object].  A function of the store returns the value of              *)
(* validateManifestSchema.errors it leaves behind along with its result.   *)
(***************************************************************************)
NameHeadChars == LowerLetters \cup {"@"}
NameTailChars == LowerLetters \cup Digits \cup {"@", ".", "_", "-", "/"}

IsString(v) == v # JsUndefined /\ v # JsNull

\* definitions/extensionName of the schema
ValidExtensionName(n) ==
    /\ IsString(n)
    /\ Len(n) >= 3
    /\ Len(n) <= 80
    /\ n[1] \in NameHeadChars
    /\ \A i \in 2..Len(n) : n[i] \in NameTailChars

MiddlewareKeys ==
    {"name", "afterMiddleware", "beforeMiddleware", "mountPath", "configuration",
     "dependencies", "order"}
TaskKeys == {"name", "afterTask", "beforeTask", "configuration", "dependencies", "order"}

\* the violations of definitions/middleware or definitions/task by one entry
EntryErrors(entry, allowed, hintKeys) ==
    (IF "name" \in DOMAIN entry THEN <<>> ELSE <<"must have required property name">>)
    \o (IF "name" \in DOMAIN entry /\ ~ValidExtensionName(entry["name"])
        THEN <<"name: must match pattern and length">> ELSE <<>>)
    \o (IF DOMAIN entry \subseteq allowed THEN <<>>
        ELSE <<"must NOT have additional properties">>)
    \o (IF \A k \in hintKeys \cap DOMAIN entry : IsString(entry[k]) THEN <<>>
        ELSE <<"must be string">>)

RECURSIVE ConcatAll(_)
ConcatAll(seqs) == IF seqs = <<>> THEN <<>> ELSE Head(seqs) \o ConcatAll(Tail(seqs))

\* the errors the compiled schema reports for a manifest object (allErrors)
SchemaErrors(manifest) ==
    (IF DOMAIN manifest \subseteq {"$schema", "middleware", "tasks", "presets"} THEN <<>>
     ELSE <<"must NOT have additional properties">>)
    \o (IF DOMAIN manifest \cap {"middleware", "tasks", "presets"} # {} THEN <<>>
        ELSE <<"must match a schema in anyOf">>)
    \o (IF "middleware" \in DOMAIN manifest
        THEN ConcatAll([i \in 1..Len(manifest["middleware"]) |->
                          EntryErrors(manifest["middleware"][i], MiddlewareKeys,
                                      {"afterMiddleware", "beforeMiddleware"})])
        ELSE <<>>)
    \o (IF "tasks" \in DOMAIN manifest
        THEN ConcatAll([i \in 1..Len(manifest["tasks"]) |->
                          EntryErrors(manifest["tasks"][i], TaskKeys,
                                      {"afterTask", "beforeTask"})])
        ELSE <<>>)

\* faulty variant of validateManifest: the errors the validator holds from
\* its previous call are read before it is called on this manifest
ValidateManifestStale(value, available, errsBefore) ==
    IF value["kind"] # "object"
    THEN [isValid |-> FALSE, errors |-> <<"Manifest must be a valid object">>,
          validatorErrors |-> errsBefore]
    ELSE IF available
         THEN LET found == SchemaErrors(value["props"])
                  stale == IF errsBefore = JsNull THEN <<>> ELSE errsBefore
              IN  [isValid |-> stale = <<>>, errors |-> stale,
                   validatorErrors |-> IF found = <<>> THEN JsNull ELSE found]
         ELSE [isValid |-> TRUE, errors |-> <<>>, validatorErrors |-> errsBefore]

\* validateManifest(manifest): [isValid, errors, validatorErrors]
ValidateManifest(value, available, errsBefore) ==
    IF value["kind"] # "object"
    THEN [isValid |-> FALSE, errors |-> <<"Manifest must be a valid object">>,
          validatorErrors |-> errsBefore]
    ELSE IF available
         THEN LET found == SchemaErrors(value["props"])
              IN  [isValid |-> found = <<>>, errors |-> found,
                   validatorErrors |-> IF found = <<>> THEN JsNull ELSE found]
         ELSE [isValid |-> TRUE, errors |-> <<>>, validatorErrors |-> errsBefore]

\* the body of loadManifest inside its try block
LoadManifestTry(file, available, errsBefore) ==
    IF file["state"] = "absent"
    THEN [threw |-> FALSE, found |-> FALSE, validatorErrors |-> errsBefore]
    ELSE IF file["state"] \in {"unreadable", "garbled"}
         THEN [threw |-> TRUE, found |-> FALSE, validatorErrors |-> errsBefore]
         ELSE LET validation == ValidateManifest(file["value"], available, errsBefore)
              IN  IF validation["isValid"]
                  THEN [threw |-> FALSE, found |-> TRUE, manifest |-> file["value"]["props"],
                        validatorErrors |-> validation["validatorErrors"]]
                  ELSE [threw |-> FALSE, found |-> FALSE,
                        validatorErrors |-> validation["validatorErrors"]]

\* loadManifest(filePath): whatever the try block throws is caught and null returned
LoadManifest(file, available, errsBefore) ==
    LET r == LoadManifestTry(file, available, errsBefore)
    IN  IF r["threw"]
        THEN [threw |-> FALSE, found |-> FALSE, validatorErrors |-> r["validatorErrors"]]
        ELSE r

\* findManifestForDependency(dependencyName, manifestsDir)
FindManifestForDependency(pkgFile, fbFile, available, errsBefore) ==
    With(LoadManifest(pkgFile, available, errsBefore),
         LAMBDA own :
            IF own["threw"] THEN own
            ELSE IF own["found"]
            THEN [threw |-> FALSE, found |-> TRUE, manifest |-> own["manifest"],
                  source |-> "package", validatorErrors |-> own["validatorErrors"]]
            ELSE With(LoadManifest(fbFile, available, own["validatorErrors"]),
                      LAMBDA fb :
                         IF fb["threw"] THEN fb
                         ELSE IF fb["found"]
                         THEN [threw |-> FALSE, found |-> TRUE, manifest |-> fb["manifest"],
                               source |-> "fallback",
                               validatorErrors |-> fb["validatorErrors"]]
                         ELSE [threw |-> FALSE, found |-> FALSE,
                               validatorErrors |-> fb["validatorErrors"]]))

\* faulty variant of getAllDependencies: a name of both groups is listed once
GetAllDependenciesUnique(pj) ==
    IF pj["state"] # "json" THEN <<>>
    ELSE pj["dependencies"]
         \o SelectSeq(pj["devDependencies"],
                      LAMBDA d : \A i \in 1..Len(pj["dependencies"]) :
                                    pj["dependencies"][i] # d)

\* getAllDependencies(): the names of dependencies, then those of devDependencies
GetAllDependencies(pj) ==
    IF pj["state"] # "json" THEN <<>>
    ELSE pj["dependencies"] \o pj["devDependencies"]

\* the descriptors one found manifest contributes: middleware, then tasks
Flatten(manifest, dependency, source) ==
    (IF "middleware" \in DOMAIN manifest
     THEN MapSeq(LAMBDA mw : Spread(mw, [type |-> "middleware", dependency |-> dependency,
                                         source |-> source]),
                 manifest["middleware"])
     ELSE <<>>)
    \o (IF "tasks" \in DOMAIN manifest
        THEN MapSeq(LAMBDA task : Spread(task, [type |-> "task", dependency |-> dependency,
                                                source |-> source]),
                    manifest["tasks"])
        ELSE <<>>)

\* Step 2, from the i-th dependency on
RECURSIVE DiscoverFrom(_, _, _, _, _, _, _)
DiscoverFrom(dependencies, i, pkgFiles, fbFiles, available, errs, extensions) ==
    IF i > Len(dependencies)
    THEN [threw |-> FALSE, extensions |-> extensions, validatorErrors |-> errs]
    ELSE With(FindManifestForDependency(pkgFiles[dependencies[i]], fbFiles[dependencies[i]],
                                        available, errs),
              LAMBDA info :
                 IF info["threw"]
                 THEN [threw |-> TRUE, extensions |-> extensions,
                       validatorErrors |-> info["validatorErrors"]]
                 ELSE DiscoverFrom(dependencies, i + 1, pkgFiles, fbFiles, available,
                                   info["validatorErrors"],
                                   IF info["found"]
                                   THEN extensions \o Flatten(info["manifest"],
                                                              dependencies[i], info["source"])
                                   ELSE extensions))

\* Step 2
DiscoverManifests(pj, pkgFiles, fbFiles, available, errs) ==
    DiscoverFrom(GetAllDependencies(pj), 1, pkgFiles, fbFiles, available, errs, <<>>)

\* Step 1.  A raw configuration is an object with optional properties
\* configuration (the nested form), debug, disable ([isArray, items]) and
\* override ([isObject, map]).
LoadConfig(config) ==
    LET src == IF "configuration" \in DOMAIN config THEN config["configuration"] ELSE config
    IN  [debug |-> "debug" \in DOMAIN src /\ src["debug"],
         disable |-> IF "disable" \in DOMAIN src /\ src["disable"]["isArray"]
                     THEN src["disable"]["items"] ELSE <<>>,
         override |-> IF "override" \in DOMAIN src /\ src["override"]["isObject"]
                      THEN src["override"]["map"] ELSE <<>>]

\* Array.prototype.filter by type
OfType(extensions, ty) == SelectSeq(extensions, LAMBDA ext : ext["type"] = ty)

(***************************************************************************)
(* State.                                                                  *)
(***************************************************************************)
VARIABLES
    \* the environment of the process
    pkgJson,            \* the project's package.json
    nodeModules,        \* per dependency: the file node_modules/<dep>/ui5-plugin-loader.json
    fallbackDir,        \* per dependency: the file <manifestsDir>/<dep>.json
    validatorAvailable, \* validateManifestSchema was compiled at module load
    collation,          \* what localeCompare of this build compares by
    \* module-level state of lib/core.js
    validatorErrors,    \* validateManifestSchema.errors
    \* runs of processPipeline
    run,                \* number of runs made
    prev,               \* the run before the latest one
    cur,                \* the latest run: its configuration, stage outputs, result
    \* a direct call of one exported stage function
    fnName,             \* the function
    fnState,            \* "ready", "called", "recalled"
    fnInput,            \* the list passed to the first call
    fnArg,              \* the second argument (disable list, override map)
    fnMid,              \* the list passed to the latest call
    fnOutput,           \* what the latest call returned
    fnLog,              \* what the latest call logged at warning level
    \* the host's initialisations of the middleware and of the task
    packages,           \* what require finds for each package name
    taskUtil,           \* "v4" when the host offers registerTask, else "none"
    inits,              \* the number of initialisations so far
    host,               \* the latest initialisation and what it led to
    \* one request through the composite handler
    loadedMiddlewares,  \* the {name, function} pairs the composite closes over
    phase,              \* "idle", then "running" from the host's call on
    idx,                \* the composite's counter of handlers invoked
    stack,              \* the handler calls in progress, innermost last
    pending,            \* continuation calls scheduled for a later turn
    events,             \* what has happened, in order
    \* requests whose chains interleave
    chains,             \* per request: its phase, its counter idx, its events
    active              \* the request the current turn of the event loop runs

envVars == <<pkgJson, nodeModules, fallbackDir, validatorAvailable, collation>>
runVars == <<validatorErrors, run, prev, cur>>
fnVars == <<fnName, fnState, fnInput, fnArg, fnMid, fnOutput, fnLog>>
hostVars == <<packages, taskUtil, inits, host>>
dispatchVars == <<loadedMiddlewares, phase, idx, stack, pending, events, chains, active>>
vars == <<envVars, runVars, fnVars, hostVars, dispatchVars>>

NoRun == [made |-> FALSE]

\* no package is installed and the host has not initialised anything
NoHost ==
    /\ packages = <<>>
    /\ taskUtil = "none"
    /\ inits = 0
    /\ host = [made |-> FALSE]

\* no composite handler has been built
NoDispatch ==
    /\ loadedMiddlewares = <<>>
    /\ phase = "idle"
    /\ idx = 0
    /\ stack = <<>>
    /\ pending = <<>>
    /\ events = <<>>
    /\ chains = <<>>
    /\ active = 0

(***************************************************************************)
(* Inputs of the direct calls.                                             *)
(***************************************************************************)
NameDup == <<"d", "u", "p">>
NameAbc == <<"a", "b", "c">>
NameXModules == <<"x", "-", "m", "o", "d", "u", "l", "e", "s">>
NameAStringreplace ==
    <<"a", "-", "s", "t", "r", "i", "n", "g", "r", "e", "p", "l", "a", "c", "e">>
NameTranspileModules ==
    <<"t", "r", "a", "n", "s", "p", "i", "l", "e", "-", "m", "o", "d", "u", "l", "e", "s">>
NameMyLivereload == <<"m", "y", "-", "l", "i", "v", "e", "r", "e", "l", "o", "a", "d">>
NameUpperModules == <<"M", "o", "d", "u", "l", "e", "s">>

\* three-character names over the characters the manifest schema allows
PunctNames ==
    {<<"a", c, "b">> : c \in {"_", "-", ".", "/", "@", "1", "a"}}

SortNames ==
    PunctNames \cup {NameXModules, NameAStringreplace, NameTranspileModules, NameMyLivereload}

Descriptor(n, ty, dep) ==
    [name |-> n, type |-> ty, dependency |-> dep, source |-> "package"]

\* descriptors that differ in their names only
SortDescriptors == {Descriptor(n, "middleware", "dep-a") : n \in SortNames}

\* the order properties a descriptor may carry, per type: none, one, or both
\* directions together with a property of the other axis
HintVariants(ty) ==
    IF ty = "middleware"
    THEN {<<>>,
          [beforeMiddleware |-> StrCsp, configuration |-> [debug |-> FALSE, port |-> 1]],
          [afterMiddleware |-> NameAbc, beforeMiddleware |-> StrCors, mountPath |-> "/m",
           afterTask |-> StrReplaceToken]}
    ELSE {<<>>,
          [beforeTask |-> StrReplaceToken, configuration |-> [debug |-> FALSE, port |-> 1]],
          [afterTask |-> NameAbc, beforeTask |-> NameXModules, beforeMiddleware |-> StrCsp]}

\* descriptors over two names that differ in type, origin and order properties
HintDescriptors ==
    UNION {{Spread(Descriptor(n, ty, IF DOMAIN h = {} THEN "dep-a" ELSE "dep-b"), h) :
                n \in {NameDup, NameAbc}, h \in HintVariants(ty)} :
           ty \in {"middleware", "task"}}

\* descriptors whose order property is present with the empty string as value
EmptyHintDescriptors ==
    {Spread(Descriptor(NameAbc, "middleware", "dep-a"), [afterMiddleware |-> <<>>]),
     Spread(Descriptor(NameDup, "task", "dep-b"), [beforeTask |-> <<>>])}

SeqsUpTo(S, n) == UNION {[1..k -> S] : k \in 0..n}

\* disable lists passed to applyDisable
DisableLists == {<<>>, <<NameDup>>, <<NameAbc, NameDup>>, <<NameXModules>>}

\* override patches: each direction alone, both directions of one axis, both
\* axes, an empty and a null value, mountPath and configuration
Patches ==
    {[afterMiddleware |-> StrCors],
     [beforeMiddleware |-> NameDup],
     [afterMiddleware |-> StrCors, beforeMiddleware |-> StrCsp],
     [afterTask |-> StrReplaceCopyright],
     [beforeTask |-> NameDup],
     [afterTask |-> StrReplaceCopyright, beforeTask |-> NameDup],
     [afterMiddleware |-> StrCors, beforeTask |-> NameDup],
     [afterMiddleware |-> <<>>],
     [beforeTask |-> JsNull],
     [mountPath |-> "/o", configuration |-> [debug |-> TRUE, extra |-> 2]]}

OverrideMaps ==
    {<<>>} \cup {[n \in {NameDup} |-> p] : p \in Patches}
           \cup {[n \in {NameDup, NameAbc} |-> p] : p \in {[afterMiddleware |-> StrCors]}}

StageFunctions ==
    {"applyDisable", "fillDefaults", "applyOverride", "validateRefs", "deduplicate",
     "smartSort"}

\* the lists a direct call of f is given
InputsFor(f) ==
    IF f = "smartSort" THEN SeqsUpTo(SortDescriptors, MaxListLen)
    ELSE IF f = "fillDefaults"
    THEN SeqsUpTo(HintDescriptors \cup EmptyHintDescriptors, MaxListLen)
    ELSE SeqsUpTo(HintDescriptors, MaxListLen)

\* the second argument of a direct call of f
ArgsFor(f) ==
    IF f = "applyDisable" THEN DisableLists
    ELSE IF f = "applyOverride" THEN OverrideMaps
    ELSE {<<>>}

Builds == {"icu", "ordinal"}

NoFiles == [d \in {} |-> d]

\* a caller is about to call stage function f on a list
InitStage ==
    /\ pkgJson = [state |-> "absent"]
    /\ nodeModules = NoFiles
    /\ fallbackDir = NoFiles
    /\ validatorAvailable = TRUE
    /\ collation \in Builds
    /\ validatorErrors = JsNull
    /\ run = 0
    /\ prev = NoRun
    /\ cur = NoRun
    /\ fnName \in StageFunctions
    /\ fnState = "ready"
    /\ fnInput \in InputsFor(fnName)
    /\ fnArg \in ArgsFor(fnName)
    /\ fnMid = fnInput
    /\ fnOutput = <<>>
    /\ fnLog = <<>>
    /\ NoHost
    /\ NoDispatch
    \* only smartSort consults the collation: the other functions are called in one build
    /\ (fnName # "smartSort" => collation = "icu")

\* what f returns for list and arg
CallResult(f, list, arg) ==
    CASE f = "applyDisable" -> ApplyDisable(list, arg)
      [] f = "fillDefaults" -> FillDefaults(list)
      [] f = "applyOverride" -> ApplyOverride(list, arg)
      [] f = "validateRefs" -> ValidateRefs(list)
      [] f = "deduplicate" -> Deduplicate(list)
      [] f = "smartSort" -> SmartSort(collation, list)["value"]

\* what f logs at warning level for list
CallWarnings(f, list) ==
    IF f = "validateRefs" THEN ValidateRefsWarnings(list, 1) ELSE <<>>

\* the call
CallStage ==
    /\ fnState = "ready"
    /\ fnOutput' = CallResult(fnName, fnInput, fnArg)
    /\ fnLog' = CallWarnings(fnName, fnInput)
    /\ fnState' = "called"
    /\ UNCHANGED <<fnName, fnInput, fnArg, fnMid, envVars, runVars, hostVars, dispatchVars>>

\* the same function called again on what it returned
RecallStage ==
    /\ fnState = "called"
    /\ fnMid' = fnOutput
    /\ fnOutput' = CallResult(fnName, fnOutput, fnArg)
    /\ fnLog' = CallWarnings(fnName, fnOutput)
    /\ fnState' = "recalled"
    /\ UNCHANGED <<fnName, fnInput, fnArg, envVars, runVars, hostVars, dispatchVars>>

NextStage == CallStage \/ RecallStage

SpecStage == InitStage /\ [][NextStage]_vars

(***************************************************************************)
(* The environment of the pipeline runs: two dependencies, the manifests   *)
(* their packages ship and the fallback manifests of the loader.           *)
(***************************************************************************)
Deps == {"dep-a", "dep-b"}

\* package.json: absent, not JSON, or two groups of dependency names (the
\* keys of an object, in insertion order)
PackageJsons ==
    {[state |-> "absent"],
     [state |-> "garbled"],
     [state |-> "json", dependencies |-> <<"dep-a">>, devDependencies |-> <<>>],
     [state |-> "json", dependencies |-> <<"dep-a", "dep-b">>, devDependencies |-> <<>>],
     [state |-> "json", dependencies |-> <<"dep-b", "dep-a">>, devDependencies |-> <<>>],
     [state |-> "json", dependencies |-> <<"dep-b">>, devDependencies |-> <<"dep-a", "dep-b">>]}

JsonFile(doc) == [state |-> "json", value |-> [kind |-> "object", props |-> doc]]

\* the manifest dep-a ships: a name that is a middleware and a task
DocA ==
    [middleware |-> <<[name |-> NameXModules, beforeMiddleware |-> StrCsp],
                      [name |-> NameDup, mountPath |-> "/d"]>>,
     tasks |-> <<[name |-> NameDup, afterTask |-> NameAbc], [name |-> NameAbc]>>]

\* the manifest dep-a ships in a release that breaks the schema: an entry
\* without a name, and names that are too short and uppercase
DocABroken ==
    [middleware |-> <<[mountPath |-> <<"/", "u">>], [name |-> <<"a", "b">>],
                      [name |-> NameUpperModules]>>]

\* the fallback manifest for dep-a
DocFallbackA ==
    [middleware |-> <<[name |-> NameXModules], [name |-> NameMyLivereload],
                      [name |-> NameAStringreplace]>>]

\* the manifest dep-b ships: its first entry gives both directions
DocB ==
    [middleware |-> <<[name |-> NameTranspileModules, afterMiddleware |-> StrCompression,
                       beforeMiddleware |-> StrCsp],
                      [name |-> NameDup, afterMiddleware |-> NameXModules,
                       configuration |-> [debug |-> FALSE, port |-> 1]]>>,
     tasks |-> <<[name |-> NameAStringreplace, beforeTask |-> StrReplaceToken]>>]

\* the fallback manifest for dep-b
DocFallbackB ==
    [middleware |-> <<[name |-> NameAbc]>>,
     tasks |-> <<[name |-> NameDup, beforeTask |-> StrReplaceCopyright]>>]

\* names and packages of the UI5 tooling
NameToolingTranspileMiddleware ==
    <<"u", "i", "5", "-", "t", "o", "o", "l", "i", "n", "g", "-", "t", "r", "a", "n",
    "s", "p", "i", "l", "e", "-", "m", "i", "d", "d", "l", "e", "w", "a", "r", "e">>
NameToolingTranspileTask ==
    <<"u", "i", "5", "-", "t", "o", "o", "l", "i", "n", "g", "-", "t", "r", "a", "n",
    "s", "p", "i", "l", "e", "-", "t", "a", "s", "k">>
NameToolingModulesMiddleware ==
    <<"u", "i", "5", "-", "t", "o", "o", "l", "i", "n", "g", "-", "m", "o", "d", "u",
    "l", "e", "s", "-", "m", "i", "d", "d", "l", "e", "w", "a", "r", "e">>
NameToolingModulesTask ==
    <<"u", "i", "5", "-", "t", "o", "o", "l", "i", "n", "g", "-", "m", "o", "d", "u",
    "l", "e", "s", "-", "t", "a", "s", "k">>
NameToolingStringreplaceMiddleware ==
    <<"u", "i", "5", "-", "t", "o", "o", "l", "i", "n", "g", "-", "s", "t", "r", "i",
    "n", "g", "r", "e", "p", "l", "a", "c", "e", "-", "m", "i", "d", "d", "l", "e", "w",
    "a", "r", "e">>
NameToolingStringreplaceTask ==
    <<"u", "i", "5", "-", "t", "o", "o", "l", "i", "n", "g", "-", "s", "t", "r", "i",
    "n", "g", "r", "e", "p", "l", "a", "c", "e", "-", "t", "a", "s", "k">>
NameMiddlewareLivereload ==
    <<"u", "i", "5", "-", "m", "i", "d", "d", "l", "e", "w", "a", "r", "e", "-", "l",
    "i", "v", "e", "r", "e", "l", "o", "a", "d">>
NameAbcMiddleware == <<"a", "b", "c", "-", "m", "i", "d", "d", "l", "e", "w", "a", "r", "e">>
NameAbcTask == <<"a", "b", "c", "-", "t", "a", "s", "k">>
PkgToolingTranspile ==
    <<"u", "i", "5", "-", "t", "o", "o", "l", "i", "n", "g", "-", "t", "r", "a", "n",
    "s", "p", "i", "l", "e">>
PkgToolingModules ==
    <<"u", "i", "5", "-", "t", "o", "o", "l", "i", "n", "g", "-", "m", "o", "d", "u",
    "l", "e", "s">>
PkgToolingStringreplace ==
    <<"u", "i", "5", "-", "t", "o", "o", "l", "i", "n", "g", "-", "s", "t", "r", "i",
    "n", "g", "r", "e", "p", "l", "a", "c", "e">>
StrMiddlewareSuffix == <<"-", "m", "i", "d", "d", "l", "e", "w", "a", "r", "e">>
StrTaskSuffix == <<"-", "t", "a", "s", "k">>

\* the manifest dep-a ships in the release for the UI5 tooling
DocTooling ==
    [middleware |-> <<[name |-> NameToolingTranspileMiddleware],
                      [name |-> NameAbcMiddleware, afterMiddleware |-> StrCompression]>>,
     tasks |-> <<[name |-> NameToolingTranspileTask, beforeTask |-> StrReplaceVersion],
                 [name |-> NameAbcTask]>>]

\* the manifest dep-b ships in a release that breaks the schema: a task
\* without a name
DocBBroken == [tasks |-> <<[beforeTask |-> StrReplaceToken]>>]

\* the content of each file the runs may find, by file name
FileContent(file) ==
    CASE file = "a/ui5-plugin-loader.json" -> JsonFile(DocA)
      [] file = "a/ui5-plugin-loader.json (broken release)" -> JsonFile(DocABroken)
      [] file = "a/ui5-plugin-loader.json (tooling release)" -> JsonFile(DocTooling)
      [] file = "b/ui5-plugin-loader.json" -> JsonFile(DocB)
      [] file = "b/ui5-plugin-loader.json (broken release)" -> JsonFile(DocBBroken)
      [] file = "manifests/a.json" -> JsonFile(DocFallbackA)
      [] file = "manifests/b.json" -> JsonFile(DocFallbackB)
      [] OTHER -> [state |-> file]

PackageManifestFiles(dep) ==
    IF dep = "dep-a"
    THEN {"absent", "garbled", "a/ui5-plugin-loader.json",
          "a/ui5-plugin-loader.json (broken release)"}
    ELSE {"absent", "b/ui5-plugin-loader.json"}

FallbackManifestFiles(dep) ==
    IF dep = "dep-a" THEN {"absent", "manifests/a.json"} ELSE {"absent", "manifests/b.json"}

\* the files of a directory, by dependency
Files(dir) == [d \in Deps |-> FileContent(dir[d])]

\* the override the host may configure: a patch for dup, and one for
\* x-modules that gives both directions of the middleware axis
OverrideForDup ==
    [isObject |-> TRUE,
     map |-> (NameDup :> [afterMiddleware |-> StrCors,
                          configuration |-> [debug |-> TRUE]])
             @@ (NameXModules :> [afterMiddleware |-> StrCors,
                                  beforeMiddleware |-> NameDup])]

\* an override whose patches give an empty string and null as order
\* properties
OverrideEmptyHints ==
    [isObject |-> TRUE,
     map |-> (NameDup :> [afterMiddleware |-> <<>>])
             @@ (NameAbc :> [beforeTask |-> JsNull])]

\* the configurations the host passes
Configs ==
    {<<>>,
     [disable |-> [isArray |-> TRUE, items |-> <<NameDup>>]],
     [configuration |-> [debug |-> TRUE,
                         disable |-> [isArray |-> TRUE, items |-> <<NameXModules, NameAbc>>]]],
     [override |-> OverrideForDup],
     [override |-> OverrideEmptyHints],
     [disable |-> [isArray |-> TRUE, items |-> <<NameDup>>], override |-> OverrideForDup]}

\* the module has been loaded, no run has been made
Init ==
    /\ pkgJson \in PackageJsons
    /\ nodeModules \in [Deps -> UNION {PackageManifestFiles(d) : d \in Deps}]
    /\ \A d \in Deps : nodeModules[d] \in PackageManifestFiles(d)
    /\ fallbackDir \in [Deps -> UNION {FallbackManifestFiles(d) : d \in Deps}]
    /\ \A d \in Deps : fallbackDir[d] \in FallbackManifestFiles(d)
    /\ validatorAvailable \in BOOLEAN
    /\ collation \in Builds
    /\ validatorErrors = JsNull
    /\ run = 0
    /\ prev = NoRun
    /\ cur = NoRun
    /\ fnName = "none"
    /\ fnState = "none"
    /\ fnInput = <<>>
    /\ fnArg = <<>>
    /\ fnMid = <<>>
    /\ fnOutput = <<>>
    /\ fnLog = <<>>
    /\ NoHost
    /\ NoDispatch

\* what a run was given and what it returned, without the stage outputs
Outcome(r) ==
    IF ~r["made"] THEN r
    ELSE IF r["status"] = "threw"
    THEN [made |-> TRUE, status |-> "threw", config |-> r["config"],
          normalizedConfig |-> r["normalizedConfig"]]
    ELSE [made |-> TRUE, status |-> "returned", config |-> r["config"],
          normalizedConfig |-> r["normalizedConfig"],
          middleware |-> r["middleware"], tasks |-> r["tasks"], total |-> r["total"]]

\* processPipeline with a catch that logs and returns an empty result
PipelineResultSwallows(config, normalizedConfig, discovery, withoutDisabled, withDefaults, withOverrides, validated, deduplicated, sorting) ==
    IF discovery["threw"] \/ sorting["threw"]
    THEN [made |-> TRUE, status |-> "returned", config |-> config,
          normalizedConfig |-> normalizedConfig,
          middleware |-> <<>>, tasks |-> <<>>, total |-> 0,
          validatorErrors |-> discovery["validatorErrors"]]
    ELSE [made |-> TRUE, status |-> "returned", config |-> config,
          normalizedConfig |-> normalizedConfig,
          middleware |-> OfType(sorting["value"], "middleware"),
          tasks |-> OfType(sorting["value"], "task"),
          total |-> Len(sorting["value"]),
          validatorErrors |-> discovery["validatorErrors"]]

\* what processPipeline returns or throws, with the stage outputs that led to
\* it (the elapsed time, duration, is left out)
PipelineResult(config, normalizedConfig, discovery, withoutDisabled, withDefaults, withOverrides, validated, deduplicated, sorting) ==
    IF discovery["threw"] \/ sorting["threw"]
    THEN [made |-> TRUE, status |-> "threw", config |-> config,
          normalizedConfig |-> normalizedConfig,
          validatorErrors |-> discovery["validatorErrors"]]
    ELSE [made |-> TRUE, status |-> "returned", config |-> config,
          normalizedConfig |-> normalizedConfig,
          extensions |-> discovery["extensions"],
          withoutDisabled |-> withoutDisabled,
          withDefaults |-> withDefaults,
          withOverrides |-> withOverrides,
          validated |-> validated,
          deduplicated |-> deduplicated,
          sorted |-> sorting["value"],
          middleware |-> OfType(sorting["value"], "middleware"),
          tasks |-> OfType(sorting["value"], "task"),
          total |-> Len(sorting["value"]),
          validatorErrors |-> discovery["validatorErrors"]]

\* processPipeline({config, manifestsDir}) with the validator's errors left
\* at errs: the eight steps in order, each on the output of the one before
ProcessPipeline(config, errs) ==
    With(LoadConfig(config), LAMBDA normalizedConfig :
    With(DiscoverManifests(pkgJson, Files(nodeModules), Files(fallbackDir),
                           validatorAvailable, errs), LAMBDA discovery :
    With(ApplyDisable(discovery["extensions"], normalizedConfig["disable"]),
         LAMBDA withoutDisabled :
    With(FillDefaults(withoutDisabled), LAMBDA withDefaults :
    With(ApplyOverride(withDefaults, normalizedConfig["override"]), LAMBDA withOverrides :
    With(ValidateRefs(withOverrides), LAMBDA validated :
    With(Deduplicate(validated), LAMBDA deduplicated :
    With(SmartSort(collation, deduplicated), LAMBDA sorting :
         PipelineResult(config, normalizedConfig, discovery, withoutDisabled,
                        withDefaults, withOverrides, validated, deduplicated,
                        sorting)))))))))

\* the host calls processPipeline
RunPipeline ==
    /\ run < MaxRuns
    /\ \E config \in Configs :
       \E result \in {ProcessPipeline(config, validatorErrors)} :
          /\ cur' = result
          /\ validatorErrors' = result["validatorErrors"]
    /\ prev' = Outcome(cur)
    /\ run' = run + 1
    /\ UNCHANGED <<envVars, fnVars, hostVars, dispatchVars>>

Next == RunPipeline

Spec == Init /\ [][Next]_vars

(***************************************************************************)
(* The host initialises the middleware and the task: the pipeline, then    *)
(* the loading of the middleware packages or the registration of tasks.    *)
(***************************************************************************)
\* the table of known extension names
Mappings ==
    (NameToolingTranspileMiddleware :> PkgToolingTranspile)
    @@ (NameToolingTranspileTask :> PkgToolingTranspile)
    @@ (NameToolingModulesMiddleware :> PkgToolingModules)
    @@ (NameToolingModulesTask :> PkgToolingModules)
    @@ (NameToolingStringreplaceMiddleware :> PkgToolingStringreplace)
    @@ (NameToolingStringreplaceTask :> PkgToolingStringreplace)
    @@ (NameMiddlewareLivereload :> NameMiddlewareLivereload)

\* s ends with suffix and has at least one character before it
HasSuffix(s, suffix) ==
    /\ Len(s) > Len(suffix)
    /\ SubSeq(s, Len(s) - Len(suffix) + 1, Len(s)) = suffix

\* the package of an extension name: the table, then the name without its
\* -middleware or -task ending, then the name itself
GetPackageNameFromExtension(extensionName) ==
    IF extensionName \in DOMAIN Mappings THEN Mappings[extensionName]
    ELSE IF HasSuffix(extensionName, StrMiddlewareSuffix)
    THEN SubSeq(extensionName, 1, Len(extensionName) - Len(StrMiddlewareSuffix))
    ELSE IF HasSuffix(extensionName, StrTaskSuffix)
    THEN SubSeq(extensionName, 1, Len(extensionName) - Len(StrTaskSuffix))
    ELSE extensionName

\* the entry points tried for a package, in this order; the last one is the
\* package name itself
PossiblePaths ==
    <<"lib/middleware.js", "lib/livereload.js", "middleware.js", "index.js", "(package)">>

\* require.resolve finds the package or node_modules has its directory
DependencyExists(dependencyName) ==
    dependencyName \in DOMAIN packages /\ packages[dependencyName]["installed"]

\* the entry points from the k-th on: resolve, require and invoke until one
\* does not throw; calls counts the invocations of factories, tried lists the
\* entry points whose module was loaded
RECURSIVE TryPaths(_, _)
TryPaths(entries, k) ==
    IF k > Len(PossiblePaths) THEN [loaded |-> FALSE, path |-> "", calls |-> 0, tried |-> <<>>]
    ELSE IF entries[k] = "unresolvable" THEN TryPaths(entries, k + 1)
    ELSE IF entries[k] = "factoryThrows"
    THEN With(TryPaths(entries, k + 1),
              LAMBDA rest : [rest EXCEPT !["calls"] = rest["calls"] + 1,
                                         !["tried"] = <<PossiblePaths[k]>> \o rest["tried"]])
    ELSE IF entries[k] = "factory"
    THEN [loaded |-> TRUE, path |-> PossiblePaths[k], calls |-> 1,
          tried |-> <<PossiblePaths[k]>>]
    ELSE IF entries[k] = "factoryReturnsNothing"
    THEN [loaded |-> FALSE, path |-> "", calls |-> 1, tried |-> <<PossiblePaths[k]>>]
    ELSE [loaded |-> FALSE, path |-> "", calls |-> 0, tried |-> <<PossiblePaths[k]>>]

\* one turn of the loop of loadPlugins
LoadOne(config) ==
    IF ~IsString(Get(config, "name"))
    THEN [outcome |-> "error", path |-> "", calls |-> 0, tried |-> <<>>]
    ELSE With(GetPackageNameFromExtension(config["name"]), LAMBDA packageName :
         IF ~Truthy(packageName) \/ ~DependencyExists(packageName)
         THEN [outcome |-> "notFound", path |-> "", calls |-> 0, tried |-> <<>>]
         ELSE With(TryPaths(packages[packageName]["entries"], 1), LAMBDA try :
              [outcome |-> IF try["loaded"] THEN "loaded" ELSE "failed",
               package |-> packageName,
               path |-> try["path"], calls |-> try["calls"], tried |-> try["tried"]]))

\* the loop of loadPlugins from the i-th descriptor on
RECURSIVE LoadFrom(_, _, _)
LoadFrom(middleware, i, loaded) ==
    IF i > Len(middleware) THEN loaded
    ELSE With(LoadOne(middleware[i]), LAMBDA one :
         LoadFrom(middleware, i + 1,
                  IF one["outcome"] = "loaded"
                  THEN Append(loaded,
                              [name |-> middleware[i]["name"],
                               function |-> [package |-> one["package"],
                                             path |-> one["path"]]])
                  ELSE loaded))

\* loadPlugins({context, manifestsDir}): the pipeline on context.options,
\* then the loop
LoadPlugins(options, errs) ==
    With(ProcessPipeline(options, errs), LAMBDA result :
         IF result["status"] = "threw"
         THEN [threw |-> TRUE, validatorErrors |-> result["validatorErrors"],
               pipelines |-> <<result["status"]>>]
         ELSE [threw |-> FALSE, validatorErrors |-> result["validatorErrors"],
               pipelines |-> <<result["status"]>>,
               middleware |-> result["middleware"],
               attempts |-> [i \in 1..Len(result["middleware"]) |->
                                LoadOne(result["middleware"][i])],
               loadedMiddlewares |-> LoadFrom(result["middleware"], 1, <<>>)])

\* what the task passes to registerTask for one task descriptor
RegistrationOptions(taskConfig) ==
    Spread([name |-> taskConfig["name"],
            configuration |-> IF "configuration" \in DOMAIN taskConfig
                              THEN taskConfig["configuration"] ELSE <<>>],
           IF Truthy(Get(taskConfig, "afterTask"))
           THEN [afterTask |-> taskConfig["afterTask"]]
           ELSE IF Truthy(Get(taskConfig, "beforeTask"))
           THEN [beforeTask |-> taskConfig["beforeTask"]]
           ELSE [afterTask |-> StrReplaceVersion])

\* faulty variant of the registration loop: the first registerTask that fails
\* ends the loop
RegisterTasksStopsAtFailure(tasks, rejected) ==
    LET named == SelectSeq(tasks, LAMBDA t : Truthy(Get(t, "name")))
        all == [k \in 1..Len(named) |-> RegistrationOptions(named[k])]
        failing == {k \in 1..Len(all) : all[k]["name"] \in rejected}
        calls == IF failing = {} THEN all ELSE SubSeq(all, 1, MinOf(failing))
    IN  [calls |-> calls,
         registered |-> SelectSeq(calls, LAMBDA c : c["name"] \notin rejected),
         errors |-> [k \in 1..Len(SelectSeq(calls, LAMBDA c : c["name"] \in rejected)) |->
                        SelectSeq(calls, LAMBDA c : c["name"] \in rejected)[k]["name"]],
         skipped |-> Len(tasks) - Len(named)]

\* the registration loop of the task over the pipeline's tasks, with a host
\* whose registerTask fails for the names in rejected: calls are the calls of
\* registerTask in order, registered those that succeeded, errors the names
\* logged as failed, skipped the number of tasks passed over for want of a name
RegisterTasks(tasks, rejected) ==
    LET named == SelectSeq(tasks, LAMBDA t : Truthy(Get(t, "name")))
        calls == [k \in 1..Len(named) |-> RegistrationOptions(named[k])]
    IN  [calls |-> calls,
         registered |-> SelectSeq(calls, LAMBDA c : c["name"] \notin rejected),
         errors |-> [k \in 1..Len(SelectSeq(calls, LAMBDA c : c["name"] \in rejected)) |->
                        SelectSeq(calls, LAMBDA c : c["name"] \in rejected)[k]["name"]],
         skipped |-> Len(tasks) - Len(named)]

\* the names whose registration the host may refuse
Rejections == {{}, {NameToolingTranspileTask}, {NameToolingTranspileTask, NameAbcTask}}

HostPackageJsons ==
    {[state |-> "json", dependencies |-> <<"dep-a">>, devDependencies |-> <<>>],
     [state |-> "json", dependencies |-> <<"dep-b", "dep-a">>, devDependencies |-> <<>>]}

HostManifestFiles(dep) ==
    IF dep = "dep-a"
    THEN {"a/ui5-plugin-loader.json (tooling release)",
          "a/ui5-plugin-loader.json (broken release)"}
    ELSE {"absent", "b/ui5-plugin-loader.json", "b/ui5-plugin-loader.json (broken release)"}

HostConfigs == {<<>>, [disable |-> [isArray |-> TRUE, items |-> <<NameDup>>]]}

\* what a package directory may hold: nothing, or a module kind per entry point
NotInstalled == [installed |-> FALSE, entries |-> <<>>]

Installed(entries) == [installed |-> TRUE, entries |-> entries]

NoEntryPoint ==
    Installed(<<"unresolvable", "unresolvable", "unresolvable", "unresolvable",
                "unresolvable">>)

FactoryAtLib ==
    Installed(<<"factory", "unresolvable", "unresolvable", "unresolvable", "factory">>)

FactoryAtIndex ==
    Installed(<<"unresolvable", "unresolvable", "unresolvable", "factory", "factory">>)

FactoryAtMain ==
    Installed(<<"unresolvable", "unresolvable", "unresolvable", "unresolvable", "factory">>)

FactoryAtLivereload ==
    Installed(<<"unresolvable", "factory", "unresolvable", "unresolvable", "factory">>)

ThrowingFactory ==
    Installed(<<"factoryThrows", "unresolvable", "unresolvable", "unresolvable",
                "factoryThrows">>)

ThrowingFactoryThenIndex ==
    Installed(<<"factoryThrows", "unresolvable", "unresolvable", "factory", "factory">>)

ObjectThenIndex ==
    Installed(<<"notFunction", "unresolvable", "unresolvable", "factory", "factory">>)

FactoryReturnsNothing ==
    Installed(<<"unresolvable", "unresolvable", "factoryReturnsNothing", "unresolvable",
                "factoryReturnsNothing">>)

\* the installations of the packages the manifests' names map to
Installs ==
    {(PkgToolingTranspile :> tooling) @@ (NameAbc :> abc) @@ (NameDup :> dup)
     @@ (NameTranspileModules :> FactoryAtLivereload) @@ (<<"a", "b">> :> FactoryAtMain)
     @@ (NameUpperModules :> NotInstalled) :
        tooling \in {NotInstalled, FactoryAtLib, ThrowingFactory, ThrowingFactoryThenIndex},
        abc \in {NoEntryPoint, FactoryAtIndex, ObjectThenIndex},
        dup \in {FactoryReturnsNothing, FactoryAtLib}}

InitHost ==
    /\ pkgJson \in HostPackageJsons
    /\ nodeModules \in [Deps -> UNION {HostManifestFiles(d) : d \in Deps}]
    /\ \A d \in Deps : nodeModules[d] \in HostManifestFiles(d)
    /\ fallbackDir = [d \in Deps |-> "absent"]
    /\ validatorAvailable \in BOOLEAN
    /\ collation = "icu"
    /\ validatorErrors = JsNull
    /\ run = 0
    /\ prev = NoRun
    /\ cur = NoRun
    /\ fnName = "none"
    /\ fnState = "none"
    /\ fnInput = <<>>
    /\ fnArg = <<>>
    /\ fnMid = <<>>
    /\ fnOutput = <<>>
    /\ fnLog = <<>>
    /\ packages \in Installs
    /\ taskUtil \in {"none", "v4"}
    /\ inits = 0
    /\ host = [made |-> FALSE]
    /\ NoDispatch

\* the host calls the middleware's factory: the pipeline, then loadPlugins,
\* which runs the pipeline itself; pipelines lists the calls of
\* processPipeline by their outcome
MiddlewareInit ==
    /\ inits < MaxInits
    /\ \E options \in HostConfigs :
       \E result \in {ProcessPipeline(options, validatorErrors)} :
          IF result["status"] = "threw"
          THEN /\ host' = [made |-> TRUE, kind |-> "middleware", status |-> "threw",
                           options |-> options, pipelines |-> <<result["status"]>>,
                           returned |-> FALSE, calls |-> <<>>, registered |-> <<>>]
               /\ validatorErrors' = result["validatorErrors"]
          ELSE \E plugins \in {LoadPlugins(options, result["validatorErrors"])} :
                  /\ host' = IF plugins["threw"]
                             THEN [made |-> TRUE, kind |-> "middleware",
                                   status |-> "threw", options |-> options,
                                   pipelines |-> <<result["status"]>>
                                                    \o plugins["pipelines"],
                                   returned |-> FALSE, calls |-> <<>>, registered |-> <<>>]
                             ELSE [made |-> TRUE, kind |-> "middleware",
                                   status |-> "ready", options |-> options,
                                   pipelines |-> <<result["status"]>>
                                                    \o plugins["pipelines"],
                                   returned |-> TRUE, calls |-> <<>>, registered |-> <<>>,
                                   middleware |-> plugins["middleware"],
                                   attempts |-> plugins["attempts"],
                                   tasks |-> result["tasks"],
                                   loadedMiddlewares |-> plugins["loadedMiddlewares"]]
                  /\ validatorErrors' = plugins["validatorErrors"]
    /\ inits' = inits + 1
    /\ UNCHANGED <<envVars, run, prev, cur, fnVars, packages, taskUtil, dispatchVars>>

\* the host calls the task's factory: it needs registerTask, runs the
\* pipeline and registers the tasks
TaskInit ==
    /\ inits < MaxInits
    /\ \E options \in HostConfigs, rejected \in Rejections :
          IF taskUtil # "v4"
          THEN /\ host' = [made |-> TRUE, kind |-> "task", status |-> "threw",
                           options |-> options, pipelines |-> <<>>,
                           returned |-> FALSE, calls |-> <<>>, registered |-> <<>>]
               /\ UNCHANGED validatorErrors
          ELSE \E result \in {ProcessPipeline(options, validatorErrors)} :
                  /\ host' = IF result["status"] = "threw"
                             THEN [made |-> TRUE, kind |-> "task", status |-> "threw",
                                   options |-> options,
                                   pipelines |-> <<result["status"]>>,
                                   returned |-> FALSE, calls |-> <<>>, registered |-> <<>>]
                             ELSE With(RegisterTasks(result["tasks"], rejected),
                                       LAMBDA registration :
                                  [made |-> TRUE, kind |-> "task", status |-> "ready",
                                   options |-> options,
                                   pipelines |-> <<result["status"]>>,
                                   returned |-> TRUE,
                                   middleware |-> result["middleware"],
                                   tasks |-> result["tasks"],
                                   rejected |-> rejected,
                                   calls |-> registration["calls"],
                                   registered |-> registration["registered"],
                                   errors |-> registration["errors"],
                                   skipped |-> registration["skipped"]])
                  /\ validatorErrors' = result["validatorErrors"]
    /\ inits' = inits + 1
    /\ UNCHANGED <<envVars, run, prev, cur, fnVars, packages, taskUtil, dispatchVars>>

NextHost == MiddlewareInit \/ TaskInit

SpecHost == InitHost /\ [][NextHost]_vars

(***************************************************************************)
(* One request through the composite handler the middleware returns.  A    *)
(* handler is a list of steps: call or callErr (it invokes the             *)
(* continuation, without argument or with an error), defer or deferErr     *)
(* (it schedules that invocation for a later turn), throw or throwFalsy    *)
(* (it throws an error or a falsy value); after its last step it returns.  *)
(***************************************************************************)
HandlerNames == <<<<"h", "1">>, <<"h", "2">>, <<"h", "3">>, <<"h", "4">>>>

\* the error a handler passes to the continuation or throws
ErrorOf(name) == <<"E", "-">> \o name

\* a falsy value a handler may throw: the empty string
FalsyValue == <<>>

Scripts ==
    {<<>>, <<"call">>, <<"callErr">>, <<"defer">>, <<"deferErr">>, <<"throw">>,
     <<"throwFalsy">>, <<"call", "throw">>, <<"call", "call">>}

\* the lists loadPlugins may have returned
HandlerLists ==
    UNION {{[k \in 1..n |-> [name |-> HandlerNames[k], function |-> fs[k]]] :
               fs \in [1..n -> Scripts]} : n \in 0..MaxHandlers}

Event(ev, name, val) == [ev |-> ev, name |-> name, val |-> val]

\* faulty variant of run: at the end of the list it returns without invoking
\* the host's continuation
RunWithoutEnd(err, i, stk, evs) ==
    IF Truthy(err)
    THEN [idx |-> i, stack |-> stk, events |-> Append(evs, Event("next", <<>>, err))]
    ELSE IF i >= Len(loadedMiddlewares)
    THEN [idx |-> i, stack |-> stk, events |-> evs]
    ELSE [idx |-> i + 1,
          stack |-> Append(stk, [h |-> i + 1, pc |-> 1]),
          events |-> Append(evs, Event("invoke", loadedMiddlewares[i + 1]["name"],
                                       JsUndefined))]

\* run(err) with the counter at i, the calls in progress stk and the events
\* evs: the host's continuation for an error or at the end of the list,
\* else the next handler, invoked inside try
Run(err, i, stk, evs) ==
    IF Truthy(err)
    THEN [idx |-> i, stack |-> stk, events |-> Append(evs, Event("next", <<>>, err))]
    ELSE IF i >= Len(loadedMiddlewares)
    THEN [idx |-> i, stack |-> stk,
          events |-> Append(evs, Event("next", <<>>, JsUndefined))]
    ELSE [idx |-> i + 1,
          stack |-> Append(stk, [h |-> i + 1, pc |-> 1]),
          events |-> Append(evs, Event("invoke", loadedMiddlewares[i + 1]["name"],
                                       JsUndefined))]

\* the catch block of run: the log names loadedMiddlewares[idx-1] (the array
\* is 0-based, this list 1-based), then run(e)
Caught(e, i, stk, evs) ==
    Run(e, i, stk, Append(evs, Event("log", loadedMiddlewares[i]["name"], e)))

\* the innermost handler call and its next step
Top == stack[Len(stack)]

Below == SubSeq(stack, 1, Len(stack) - 1)

Script(frame) == loadedMiddlewares[frame["h"]]["function"]

StepOf(frame) ==
    IF frame["pc"] > Len(Script(frame)) THEN "return" ELSE Script(frame)[frame["pc"]]

Advanced(frame) == [frame EXCEPT !["pc"] = frame["pc"] + 1]

\* the module has built the composite handler over a list of handlers
InitDispatch ==
    /\ pkgJson = [state |-> "absent"]
    /\ nodeModules = NoFiles
    /\ fallbackDir = NoFiles
    /\ validatorAvailable = TRUE
    /\ collation = "icu"
    /\ validatorErrors = JsNull
    /\ run = 0
    /\ prev = NoRun
    /\ cur = NoRun
    /\ fnName = "none"
    /\ fnState = "none"
    /\ fnInput = <<>>
    /\ fnArg = <<>>
    /\ fnMid = <<>>
    /\ fnOutput = <<>>
    /\ fnLog = <<>>
    /\ NoHost
    /\ loadedMiddlewares \in HandlerLists
    /\ phase = "idle"
    /\ idx = 0
    /\ stack = <<>>
    /\ pending = <<>>
    /\ events = <<>>
    /\ chains = <<>>
    /\ active = 0

Others == <<envVars, runVars, fnVars, hostVars, loadedMiddlewares, chains, active>>

\* the host calls the composite handler: idx = 0, then run()
Request ==
    /\ phase = "idle"
    /\ phase' = "running"
    /\ \E r \in {Run(JsUndefined, 0, <<>>, <<>>)} :
          /\ idx' = r["idx"]
          /\ stack' = r["stack"]
          /\ events' = r["events"]
    /\ UNCHANGED <<pending, Others>>

\* the innermost handler invokes the continuation it was given
HandlerCalls ==
    /\ stack # <<>>
    /\ StepOf(Top) \in {"call", "callErr"}
    /\ \E err \in {IF StepOf(Top) = "call" THEN JsUndefined
                   ELSE ErrorOf(loadedMiddlewares[Top["h"]]["name"])} :
       \E r \in {Run(err, idx, Append(Below, Advanced(Top)),
                     Append(events, Event("pass", loadedMiddlewares[Top["h"]]["name"],
                                          err)))} :
          /\ idx' = r["idx"]
          /\ stack' = r["stack"]
          /\ events' = r["events"]
    /\ UNCHANGED <<phase, pending, Others>>

\* the innermost handler schedules the invocation of the continuation
HandlerDefers ==
    /\ stack # <<>>
    /\ StepOf(Top) \in {"defer", "deferErr"}
    /\ pending' = Append(pending,
                         [name |-> loadedMiddlewares[Top["h"]]["name"],
                          val |-> IF StepOf(Top) = "defer" THEN JsUndefined
                                  ELSE ErrorOf(loadedMiddlewares[Top["h"]]["name"])])
    /\ stack' = Append(Below, Advanced(Top))
    /\ UNCHANGED <<phase, idx, events, Others>>

\* the innermost handler throws: the catch block of the run that invoked it
HandlerThrows ==
    /\ stack # <<>>
    /\ StepOf(Top) \in {"throw", "throwFalsy"}
    /\ \E e \in {IF StepOf(Top) = "throw" THEN ErrorOf(loadedMiddlewares[Top["h"]]["name"])
                 ELSE FalsyValue} :
       \E r \in {Caught(e, idx, Below,
                        Append(events, Event("throw", loadedMiddlewares[Top["h"]]["name"],
                                             e)))} :
          /\ idx' = r["idx"]
          /\ stack' = r["stack"]
          /\ events' = r["events"]
    /\ UNCHANGED <<phase, pending, Others>>

\* the innermost handler returns to the run that invoked it, which returns
HandlerReturns ==
    /\ stack # <<>>
    /\ StepOf(Top) = "return"
    /\ stack' = Below
    /\ UNCHANGED <<phase, idx, pending, events, Others>>

\* a later turn of the event loop: one scheduled invocation takes place
ContinuationFires ==
    /\ stack = <<>>
    /\ \E k \in 1..Len(pending) :
          /\ pending' = SubSeq(pending, 1, k - 1) \o SubSeq(pending, k + 1, Len(pending))
          /\ \E r \in {Run(pending[k]["val"], idx, <<>>,
                            Append(events, Event("pass", pending[k]["name"],
                                                 pending[k]["val"])))} :
                /\ idx' = r["idx"]
                /\ stack' = r["stack"]
                /\ events' = r["events"]
    /\ UNCHANGED <<phase, Others>>

\* what the event loop does once the request is in
Turn == HandlerCalls \/ HandlerDefers \/ HandlerThrows \/ HandlerReturns \/ ContinuationFires

NextDispatch == Request \/ Turn

SpecDispatch == InitDispatch /\ [][NextDispatch]_vars

\* the event loop runs every call to its end and every scheduled invocation
SpecDispatchLive == SpecDispatch /\ WF_vars(Turn)

(***************************************************************************)
(* Several requests through the composite handler.  The event loop runs    *)
(* one turn at a time: a request arrives or a scheduled invocation of a    *)
(* continuation takes place, and the calls it leads to run to their end    *)
(* before the next turn.  Each call of the composite handler has its own   *)
(* counter idx and its own run.                                            *)
(***************************************************************************)
\* the handlers invoke the continuation once, at once or in a later turn
PatientScripts == {<<"call">>, <<"defer">>}

PatientLists ==
    UNION {{[k \in 1..n |-> [name |-> HandlerNames[k], function |-> fs[k]]] :
               fs \in [1..n -> PatientScripts]} : n \in 0..MaxHandlers}

\* faulty variant: one counter idx for all requests, as if declared outside
\* the function the middleware returns
StoreChainSharedIdx(all, r, result) ==
    [q \in DOMAIN all |->
        IF q = r
        THEN [phase |-> "running", idx |-> result["idx"], events |-> result["events"]]
        ELSE [all[q] EXCEPT !["idx"] = result["idx"]]]

\* what a run of request r leaves in the variables of r's call of the
\* composite handler
StoreChain(all, r, result) ==
    [all EXCEPT ![r] = [phase |-> "running", idx |-> result["idx"],
                        events |-> result["events"]]]

InitInterleave ==
    /\ pkgJson = [state |-> "absent"]
    /\ nodeModules = NoFiles
    /\ fallbackDir = NoFiles
    /\ validatorAvailable = TRUE
    /\ collation = "icu"
    /\ validatorErrors = JsNull
    /\ run = 0
    /\ prev = NoRun
    /\ cur = NoRun
    /\ fnName = "none"
    /\ fnState = "none"
    /\ fnInput = <<>>
    /\ fnArg = <<>>
    /\ fnMid = <<>>
    /\ fnOutput = <<>>
    /\ fnLog = <<>>
    /\ NoHost
    /\ loadedMiddlewares \in PatientLists
    /\ phase = "idle"
    /\ idx = 0
    /\ stack = <<>>
    /\ pending = <<>>
    /\ events = <<>>
    /\ chains = [r \in 1..MaxRequests |-> [phase |-> "idle", idx |-> 0, events |-> <<>>]]
    /\ active = 0

Rest == <<envVars, runVars, fnVars, hostVars, loadedMiddlewares, phase, idx, events>>

\* the host calls the composite handler for the next request, between turns:
\* idx = 0, then run()
RequestArrives ==
    /\ stack = <<>>
    /\ \E r \in DOMAIN chains :
          /\ chains[r]["phase"] = "idle"
          /\ \A q \in 1..(r - 1) : chains[q]["phase"] = "running"
          /\ active' = r
          /\ \E result \in {Run(JsUndefined, 0, <<>>, <<>>)} :
                /\ chains' = StoreChain(chains, r, result)
                /\ stack' = result["stack"]
    /\ UNCHANGED <<pending, Rest>>

\* the innermost handler invokes the continuation of the active request
ChainCalls ==
    /\ stack # <<>>
    /\ StepOf(Top) = "call"
    /\ \E result \in {Run(JsUndefined, chains[active]["idx"], Append(Below, Advanced(Top)),
                          Append(chains[active]["events"],
                                 Event("pass", loadedMiddlewares[Top["h"]]["name"],
                                       JsUndefined)))} :
          /\ chains' = StoreChain(chains, active, result)
          /\ stack' = result["stack"]
    /\ UNCHANGED <<pending, active, Rest>>

\* the innermost handler suspends: it schedules the invocation of the
\* continuation of the active request
ChainDefers ==
    /\ stack # <<>>
    /\ StepOf(Top) = "defer"
    /\ pending' = Append(pending, [name |-> loadedMiddlewares[Top["h"]]["name"],
                                   val |-> JsUndefined, request |-> active])
    /\ stack' = Append(Below, Advanced(Top))
    /\ UNCHANGED <<chains, active, Rest>>

\* the innermost handler returns
ChainReturns ==
    /\ stack # <<>>
    /\ StepOf(Top) = "return"
    /\ stack' = Below
    /\ UNCHANGED <<chains, pending, active, Rest>>

\* a later turn: a scheduled invocation takes place, for the request whose
\* handler scheduled it
ChainResumes ==
    /\ stack = <<>>
    /\ \E k \in 1..Len(pending) :
          /\ pending' = SubSeq(pending, 1, k - 1) \o SubSeq(pending, k + 1, Len(pending))
          /\ active' = pending[k]["request"]
          /\ \E result \in {Run(pending[k]["val"], chains[pending[k]["request"]]["idx"], <<>>,
                                Append(chains[pending[k]["request"]]["events"],
                                       Event("pass", pending[k]["name"],
                                             pending[k]["val"])))} :
                /\ chains' = StoreChain(chains, pending[k]["request"], result)
                /\ stack' = result["stack"]
    /\ UNCHANGED Rest

NextInterleave ==
    RequestArrives \/ ChainCalls \/ ChainDefers \/ ChainReturns \/ ChainResumes

SpecInterleave == InitInterleave /\ [][NextInterleave]_vars

(***************************************************************************)
(* Properties of the stage functions (checked under SpecStage).            *)
(***************************************************************************)
NameOf(ext) == Get(ext, "name")

\* the k-th smallest element of a set of integers
NthOf(S, k) == CHOOSE x \in S : Cardinality({y \in S : y < x}) = k - 1

\* the elements of list at the positions in S, in list order
Pick(list, S) == [k \in 1..Cardinality(S) |-> list[NthOf(S, k)]]

\* the positions of list that carry the first occurrence of their name
FirstPositions(list) ==
    {i \in 1..Len(list) : \A j \in 1..(i - 1) : NameOf(list[j]) # NameOf(list[i])}

Called(f) == fnName = f /\ fnState = "called"

\* C2: deduplicate keeps, for each name, exactly the first descriptor carrying
\* it (so the survivor comes from the dependency that contributed it first),
\* drops every later one and leaves the survivors in input order.
C2_DeduplicateKeepsFirst ==
    Called("deduplicate") =>
        /\ fnOutput = Pick(fnInput, FirstPositions(fnInput))
        /\ \A k \in 1..Len(fnOutput) :
             \A i \in 1..Len(fnInput) :
                (NameOf(fnInput[i]) = NameOf(fnOutput[k]) /\ i \in FirstPositions(fnInput))
                    => fnOutput[k]["dependency"] = fnInput[i]["dependency"]

\* two dependencies contribute the same name, the later one first in the list is dropped
C2_Witness ==
    /\ Called("deduplicate")
    /\ Len(fnInput) = 3
    /\ Len(fnOutput) = 2
    /\ NameOf(fnInput[1]) = NameOf(fnInput[3])
    /\ fnInput[1]["dependency"] = "dep-b"
    /\ fnInput[3]["dependency"] = "dep-a"
    /\ fnOutput[1]["dependency"] = "dep-b"

\* C9: deduplicate is idempotent: applied to its own output it returns that
\* output unchanged.
C9_DeduplicateIdempotent ==
    (fnName = "deduplicate" /\ fnState = "recalled") => fnOutput = fnMid

\* the first application dropped something, the second is applied to the rest
C9_Witness ==
    /\ fnName = "deduplicate"
    /\ fnState = "recalled"
    /\ Len(fnMid) = 2
    /\ Len(fnInput) = 3
    /\ fnOutput = fnMid

\* C5: applyDisable returns exactly the subsequence of its input whose names
\* are not in the disable list, every survivor unchanged and in input order;
\* with an empty disable list the output is the input.
C5_ApplyDisableSubtractive ==
    Called("applyDisable") =>
        /\ fnOutput = Pick(fnInput, {i \in 1..Len(fnInput) :
                                        \A k \in 1..Len(fnArg) : fnArg[k] # NameOf(fnInput[i])})
        /\ (fnArg = <<>> => fnOutput = fnInput)

\* a disabled descriptor between two survivors
C5_Witness ==
    /\ Called("applyDisable")
    /\ Len(fnInput) = 3
    /\ fnArg = <<NameDup>>
    /\ NameOf(fnInput[2]) = NameDup
    /\ fnOutput = <<fnInput[1], fnInput[3]>>
    /\ "beforeMiddleware" \in DOMAIN fnInput[3]

HasPatch(ext) == fnArg # <<>> /\ NameOf(ext) \in DOMAIN fnArg

\* the order properties of one axis are the same in a and b
SameAxis(a, b, after, before) ==
    /\ (after \in DOMAIN a) = (after \in DOMAIN b)
    /\ (before \in DOMAIN a) = (before \in DOMAIN b)
    /\ Get(a, after) = Get(b, after)
    /\ Get(a, before) = Get(b, before)

\* the result carries the patch's value for key and no property opposite
Carries(out, patch, key, opposite) ==
    /\ key \in DOMAIN out
    /\ out[key] = patch[key]
    /\ opposite \notin DOMAIN out

\* the claim of C7 for one axis, as stated
AxisAsClaimed(in, out, patch, after, before) ==
    /\ after \in DOMAIN patch => Carries(out, patch, after, before)
    /\ before \in DOMAIN patch => Carries(out, patch, before, after)
    /\ (after \notin DOMAIN patch /\ before \notin DOMAIN patch)
          => SameAxis(in, out, after, before)

\* the claim of C7 for one axis, amended: "after" wins only when the patch
\* does not give "before" as well
AxisAmended(in, out, patch, after, before) ==
    /\ (after \in DOMAIN patch /\ before \notin DOMAIN patch)
          => Carries(out, patch, after, before)
    /\ before \in DOMAIN patch => Carries(out, patch, before, after)
    /\ (after \notin DOMAIN patch /\ before \notin DOMAIN patch)
          => SameAxis(in, out, after, before)

\* C7 as stated: a patch that specifies afterMiddleware (beforeMiddleware,
\* afterTask, beforeTask) yields a result that carries the value and has no
\* opposite hint on that axis; an axis the patch does not touch is unchanged.
C7_Original ==
    Called("applyOverride") =>
        /\ Len(fnOutput) = Len(fnInput)
        /\ \A i \in 1..Len(fnInput) :
             HasPatch(fnInput[i]) =>
                /\ AxisAsClaimed(fnInput[i], fnOutput[i], fnArg[NameOf(fnInput[i])],
                                 "afterMiddleware", "beforeMiddleware")
                /\ AxisAsClaimed(fnInput[i], fnOutput[i], fnArg[NameOf(fnInput[i])],
                                 "afterTask", "beforeTask")

\* C7 amended: as stated, except that a patch giving both directions of one
\* axis yields the "before" value and no "after" property on that axis.
C7_OverrideClearsOpposite ==
    Called("applyOverride") =>
        /\ Len(fnOutput) = Len(fnInput)
        /\ \A i \in 1..Len(fnInput) :
             HasPatch(fnInput[i]) =>
                /\ AxisAmended(fnInput[i], fnOutput[i], fnArg[NameOf(fnInput[i])],
                               "afterMiddleware", "beforeMiddleware")
                /\ AxisAmended(fnInput[i], fnOutput[i], fnArg[NameOf(fnInput[i])],
                               "afterTask", "beforeTask")

\* a descriptor with beforeMiddleware patched with afterMiddleware alone
C7_Witness ==
    /\ Called("applyOverride")
    /\ Len(fnInput) = 1
    /\ HasPatch(fnInput[1])
    /\ DOMAIN fnArg[NameOf(fnInput[1])] = {"afterMiddleware"}
    /\ "beforeMiddleware" \in DOMAIN fnInput[1]
    /\ "afterTask" \in DOMAIN fnInput[1]
    /\ fnOutput[1]["afterMiddleware"] = StrCors
    /\ "beforeMiddleware" \notin DOMAIN fnOutput[1]

\* C4 as stated: within one priority bucket smartSort orders the descriptors
\* ascending by name under code-unit comparison, for names the manifest name
\* pattern allows.
C4_OrdinalWithinBucket ==
    Called("smartSort") =>
        \A i, j \in 1..Len(fnOutput) :
           (i < j /\ fnOutput[i]["_smartOrder"] = fnOutput[j]["_smartOrder"]
                  /\ ValidExtensionName(NameOf(fnOutput[i]))
                  /\ ValidExtensionName(NameOf(fnOutput[j])))
              => OrdinalCompare(NameOf(fnOutput[i]), NameOf(fnOutput[j])) <= 0

\* where the code departs from C4: a build whose localeCompare collates puts
\* a_b before a-b, code units put a-b first
C4_Divergence ==
    /\ Called("smartSort")
    /\ collation = "icu"
    /\ Len(fnInput) = 2
    /\ NameOf(fnInput[1]) = <<"a", "-", "b">>
    /\ NameOf(fnInput[2]) = <<"a", "_", "b">>
    /\ NameOf(fnOutput[1]) = <<"a", "_", "b">>
    /\ NameOf(fnOutput[2]) = <<"a", "-", "b">>

(***************************************************************************)
(* Properties of pipeline runs (specification Spec).                       *)
(***************************************************************************)
Returned(r) == r["made"] /\ r["status"] = "returned"

Names(list) == [k \in 1..Len(list) |-> NameOf(list[k])]

Elems(list) == {list[k] : k \in 1..Len(list)}

\* C1: in every result of processPipeline no two descriptors of the
\* middleware and tasks output taken together share a name.
C1_NamesUniqueAcrossCategories ==
    Returned(cur) =>
        LET out == cur["middleware"] \o cur["tasks"]
        IN  \A i, j \in 1..Len(out) : NameOf(out[i]) = NameOf(out[j]) => i = j

\* discovery found one name as a middleware and as a task; one is in the output
C1_Witness ==
    /\ Returned(cur)
    /\ \E i, j \in 1..Len(cur["withoutDisabled"]) :
          /\ NameOf(cur["withoutDisabled"][i]) = NameOf(cur["withoutDisabled"][j])
          /\ cur["withoutDisabled"][i]["type"] = "middleware"
          /\ cur["withoutDisabled"][j]["type"] = "task"
    /\ Len(cur["middleware"]) > 0
    /\ Len(cur["tasks"]) > 0

\* the patterns of C3 in the order it gives, the k-th standing for bucket 10 * k
ClaimedPatterns == <<StrStringreplace, StrTranspile, StrModules, StrLivereload>>

ClaimedBucket(name) ==
    LET hits == {k \in 1..Len(ClaimedPatterns) :
                    Truthy(name) /\ Contains(ToLower(name), ClaimedPatterns[k])}
    IN  IF hits = {} THEN 50 ELSE 10 * MinOf(hits)

BucketsAscend(list) ==
    \A i, j \in 1..Len(list) :
       i < j => ClaimedBucket(NameOf(list[i])) <= ClaimedBucket(NameOf(list[j]))

\* C3: a descriptor's bucket is that of the first pattern its name contains,
\* case ignored, among stringreplace (10), transpile (20), modules (30),
\* livereload (40), else 50; in the output of smartSort and of the pipeline a
\* lower bucket precedes a higher one, so discovery order modules, livereload,
\* stringreplace comes out as stringreplace, modules, livereload.
C3_BucketsOrdered ==
    Returned(cur) =>
        /\ \A k \in 1..Len(cur["sorted"]) :
              cur["sorted"][k]["_smartOrder"] = ClaimedBucket(NameOf(cur["sorted"][k]))
        /\ Elems(MapSeq(LAMBDA ext : Delete(ext, "_smartOrder"), cur["sorted"]))
              = Elems(cur["deduplicated"])
        /\ BucketsAscend(cur["sorted"])
        /\ BucketsAscend(cur["middleware"])
        /\ BucketsAscend(cur["tasks"])
        /\ Names(cur["deduplicated"]) = <<NameXModules, NameMyLivereload, NameAStringreplace>>
              => Names(cur["middleware"])
                    = <<NameAStringreplace, NameXModules, NameMyLivereload>>

\* the scenario of C3: discovered in the order modules, livereload, stringreplace
C3_Witness ==
    /\ Returned(cur)
    /\ Names(cur["extensions"]) = <<NameXModules, NameMyLivereload, NameAStringreplace>>
    /\ Names(cur["middleware"]) = <<NameAStringreplace, NameXModules, NameMyLivereload>>

\* the elements of list whose name is not in the list names
WithoutNames(list, names) ==
    Pick(list, {i \in 1..Len(list) : \A k \in 1..Len(names) : names[k] # NameOf(list[i])})

\* run r was given what run q was given, except that its disable list is empty
SameButNothingDisabled(r, q) ==
    /\ Returned(r)
    /\ Returned(q)
    /\ r["normalizedConfig"]["disable"] = <<>>
    /\ r["normalizedConfig"]["debug"] = q["normalizedConfig"]["debug"]
    /\ r["normalizedConfig"]["override"] = q["normalizedConfig"]["override"]

DisabledRemoved(r, q) ==
    /\ q["middleware"] = WithoutNames(r["middleware"], q["normalizedConfig"]["disable"])
    /\ q["tasks"] = WithoutNames(r["tasks"], q["normalizedConfig"]["disable"])

\* C6: no descriptor whose name is in the normalized disable list is in the
\* middleware or tasks output, and what remains is in the order it has in a
\* run with the same inputs and an empty disable list.
C6_DisabledNeverInOutput ==
    /\ Returned(cur) =>
          \A ext \in Elems(cur["middleware"]) \cup Elems(cur["tasks"]) :
             \A k \in 1..Len(cur["normalizedConfig"]["disable"]) :
                NameOf(ext) # cur["normalizedConfig"]["disable"][k]
    /\ SameButNothingDisabled(prev, cur) => DisabledRemoved(prev, cur)
    /\ SameButNothingDisabled(cur, prev) => DisabledRemoved(cur, prev)

\* a name discovered twice is disabled in the second run; the first run, with
\* nothing disabled, had it in its output
C6_Witness ==
    /\ SameButNothingDisabled(prev, cur)
    /\ cur["normalizedConfig"]["disable"] = <<NameDup>>
    /\ Cardinality({i \in 1..Len(cur["extensions"]) :
                       NameOf(cur["extensions"][i]) = NameDup}) >= 2
    /\ \E ext \in Elems(prev["middleware"]) \cup Elems(prev["tasks"]) : NameOf(ext) = NameDup
    /\ Len(cur["middleware"]) >= 2

\* C8: with the dependency lists, the manifests and the configuration fixed,
\* two runs of processPipeline return the same middleware and tasks sequences,
\* whatever an earlier run left behind.
C8_RunsRepeatable ==
    (prev["made"] /\ cur["made"] /\ prev["config"] = cur["config"]) =>
        /\ prev["status"] = cur["status"]
        /\ Returned(cur) =>
              /\ prev["middleware"] = cur["middleware"]
              /\ prev["tasks"] = cur["tasks"]
              /\ prev["total"] = cur["total"]

\* the second of two runs with one configuration, the first having left the
\* errors of a rejected manifest in the validator
C8_Witness ==
    /\ prev["made"]
    /\ Returned(cur)
    /\ prev["config"] = cur["config"]
    /\ validatorErrors # JsNull
    /\ Len(cur["middleware"]) > 0
    /\ Len(cur["tasks"]) > 0

\* the manifest file of dependency d in its package is not JSON or is
\* rejected by the schema
ManifestRejected(d) ==
    LET file == FileContent(nodeModules[d])
    IN  \/ file["state"] = "garbled"
        \/ /\ file["state"] = "json"
           /\ validatorAvailable
           /\ ~ValidateManifest(file["value"], TRUE, JsNull)["isValid"]

\* the descriptors discovery found for dependency d
Contributed(r, d) == SelectSeq(r["extensions"], LAMBDA ext : ext["dependency"] = d)

\* C10 as stated: a dependency whose manifest file is not JSON or fails
\* schema validation gets no manifest from the descriptor store, which does
\* not throw: in a run that returns, that dependency contributes no
\* descriptor and the other dependencies contribute theirs.
C10_RejectedManifestContributesNothing ==
    Returned(cur) =>
        \A d \in Elems(GetAllDependencies(pkgJson)) :
           IF ManifestRejected(d)
           THEN Contributed(cur, d) = <<>>
           ELSE FileContent(nodeModules[d])["state"] = "json"
                   => Elems(Flatten(FileContent(nodeModules[d])["value"]["props"], d,
                                    "package"))
                         \subseteq Elems(Contributed(cur, d))

\* where the code departs from C10: dep-a's own manifest is rejected, the
\* fallback directory has one for it, and its descriptors are in the output
C10_Divergence ==
    /\ Returned(cur)
    /\ ManifestRejected("dep-a")
    /\ nodeModules["dep-a"] = "garbled"
    /\ fallbackDir["dep-a"] = "manifests/a.json"
    /\ Len(Contributed(cur, "dep-a")) > 0
    /\ \A k \in 1..Len(Contributed(cur, "dep-a")) :
          Contributed(cur, "dep-a")[k]["source"] = "fallback"
    /\ \E ext \in Elems(cur["middleware"]) : ext["dependency"] = "dep-a"

\* how often dependency d is listed in package.json (both groups)
Listings(d) ==
    Cardinality({k \in 1..Len(GetAllDependencies(pkgJson)) : GetAllDependencies(pkgJson)[k] = d})

\* list repeated n times
RECURSIVE Repeated(_, _)
Repeated(list, n) == IF n = 0 THEN <<>> ELSE list \o Repeated(list, n - 1)

\* C11 as stated: a dependency with a package manifest and a fallback manifest
\* contributes the package's descriptors with provenance 'package'; the
\* fallback file is used only when the package manifest file is absent, and
\* each scan of a dependency yields at most one descriptor set.
C11_PackageManifestPreferred ==
    Returned(cur) =>
        \A d \in Elems(GetAllDependencies(pkgJson)) :
           /\ nodeModules[d] # "absent"
                 => \A ext \in Elems(Contributed(cur, d)) : ext["source"] # "fallback"
           /\ (nodeModules[d] # "absent" /\ fallbackDir[d] # "absent" /\ ~ManifestRejected(d))
                 => Contributed(cur, d)
                       = Repeated(Flatten(FileContent(nodeModules[d])["value"]["props"], d,
                                          "package"),
                                  Listings(d))
           /\ \A e1, e2 \in Elems(Contributed(cur, d)) : e1["source"] = e2["source"]

\* where the code departs from C11: dep-a's package manifest file is there but
\* the schema rejects it, and the descriptors come from the fallback file
C11_Divergence ==
    /\ Returned(cur)
    /\ validatorAvailable
    /\ nodeModules["dep-a"] = "a/ui5-plugin-loader.json (broken release)"
    /\ fallbackDir["dep-a"] = "manifests/a.json"
    /\ Contributed(cur, "dep-a") = Flatten(DocFallbackA, "dep-a", "fallback")


\* a returned run went through all eight stages, each on the output of the
\* one before
AllStagesRan(r) ==
    /\ Len(r["withoutDisabled"]) <= Len(r["extensions"])
    /\ Len(r["withDefaults"]) = Len(r["withoutDisabled"])
    /\ Len(r["withOverrides"]) = Len(r["withDefaults"])
    /\ r["validated"] = r["withOverrides"]
    /\ Len(r["deduplicated"]) <= Len(r["validated"])
    /\ Len(r["sorted"]) = Len(r["deduplicated"])
    /\ r["total"] = Len(r["middleware"]) + Len(r["tasks"])

\* C12 as stated: whatever manifests the descriptor store accepts, entries
\* without a name accepted while the validator is unavailable included, and
\* whatever is configured, processPipeline runs its eight stages and returns
\* a result; it never throws.
C12_PipelineNeverThrows ==
    cur["made"] => Returned(cur) /\ AllStagesRan(cur)

\* where the code departs from C12: the validator is unavailable, dep-a's
\* manifest has an entry without a name, dep-b is scanned before it and
\* contributes an entry outside the four patterns, and the run throws
C12_Divergence ==
    /\ cur["made"]
    /\ cur["status"] = "threw"
    /\ ~validatorAvailable
    /\ pkgJson["state"] = "json"
    /\ GetAllDependencies(pkgJson) = <<"dep-b", "dep-a">>
    /\ nodeModules["dep-a"] = "a/ui5-plugin-loader.json (broken release)"
    /\ nodeModules["dep-b"] = "b/ui5-plugin-loader.json"

\* the latest initialisation was of the middleware and loadPlugins returned
Loaded == host["made"] /\ host["kind"] = "middleware" /\ host["status"] = "ready"

\* what require finds for the package of descriptor d
LayoutOf(d) ==
    IF IsString(NameOf(d)) /\ GetPackageNameFromExtension(NameOf(d)) \in DOMAIN packages
    THEN packages[GetPackageNameFromExtension(NameOf(d))]
    ELSE NotInstalled

\* the kind of the first entry point of d's package that resolves
FirstFound(d) ==
    LET found == {k \in 1..Len(LayoutOf(d)["entries"]) :
                     LayoutOf(d)["entries"][k] # "unresolvable"}
    IN  IF found = {} THEN "none" ELSE LayoutOf(d)["entries"][MinOf(found)]

PackageMissing(d) == ~LayoutOf(d)["installed"]

EntryPointNotFound(d) == LayoutOf(d)["installed"] /\ FirstFound(d) = "none"

FactoryThrows(d) == LayoutOf(d)["installed"] /\ FirstFound(d) = "factoryThrows"

FactoryReturnsHandler(d) == LayoutOf(d)["installed"] /\ FirstFound(d) = "factory"

\* the loaded pairs are the middleware descriptors picked by keep, in order,
\* each with a handler
LoadedArePicked(keep) ==
    /\ Names(host["loadedMiddlewares"]) = Names(Pick(host["middleware"], keep))
    /\ \A k \in 1..Len(host["loadedMiddlewares"]) :
          DOMAIN host["loadedMiddlewares"][k] = {"name", "function"}

\* C13 as stated: loadPlugins returns the loaded {name, handler} pairs as a
\* subsequence of the pipeline's middleware output, in the same order; a
\* descriptor whose package is missing, whose entry point is not found or
\* whose factory throws is skipped, and every later descriptor whose factory
\* returns a handler is still loaded.
C13_LoadPluginsSkipsFailures ==
    Loaded =>
        /\ \E keep \in SUBSET (1..Len(host["middleware"])) : LoadedArePicked(keep)
        /\ \A i \in 1..Len(host["middleware"]) :
              LET d == host["middleware"][i]
              IN  /\ (PackageMissing(d) \/ EntryPointNotFound(d) \/ FactoryThrows(d))
                        => ~Includes(Names(host["loadedMiddlewares"]), NameOf(d))
                  /\ FactoryReturnsHandler(d)
                        => Includes(Names(host["loadedMiddlewares"]), NameOf(d))

\* where the code departs from C13: the factory at lib/middleware.js of the
\* transpile package throws, and the descriptor is loaded all the same, from
\* index.js
C13_Divergence ==
    /\ Loaded
    /\ packages[PkgToolingTranspile] = ThrowingFactoryThenIndex
    /\ \E i \in 1..Len(host["middleware"]) :
          /\ NameOf(host["middleware"][i]) = NameToolingTranspileMiddleware
          /\ FactoryThrows(host["middleware"][i])
    /\ \E k \in 1..Len(host["loadedMiddlewares"]) :
          /\ host["loadedMiddlewares"][k]["name"] = NameToolingTranspileMiddleware
          /\ host["loadedMiddlewares"][k]["function"]["path"] = "index.js"

\* the latest initialisation completed: the factory returned to the host
Initialised(kind) == host["made"] /\ host["kind"] = kind /\ host["status"] = "ready"

\* C17 as stated: an initialisation of the middleware runs processPipeline
\* exactly once, and so does an initialisation of the task.
C17_OnePipelineRunPerInit ==
    /\ Initialised("middleware") => Len(host["pipelines"]) = 1
    /\ Initialised("task") => Len(host["pipelines"]) = 1

\* where the code departs from C17: one initialisation of the middleware has
\* run the pipeline twice, once itself and once in loadPlugins
C17_Divergence ==
    /\ inits = 1
    /\ Initialised("middleware")
    /\ host["pipelines"] = <<"returned", "returned">>

\* the positions of the events of one kind
At(ev) == {p \in 1..Len(events) : events[p]["ev"] = ev}

\* the position of name in the list of handlers
Place(name) == CHOOSE k \in 1..Len(loadedMiddlewares) : loadedMiddlewares[k]["name"] = name

\* a handler fails at p: it throws, or it passes an error to the continuation
Fails(p) ==
    \/ events[p]["ev"] = "throw"
    \/ events[p]["ev"] = "pass" /\ Truthy(events[p]["val"])

\* the host's continuation is invoked after p with the value of the event at p
Forwarded(p) ==
    \E q \in At("next") : q > p /\ events[q]["val"] = events[p]["val"]

\* no handler later in the list than the one of the event at p is invoked
\* after p
NoneInvokedAfter(p) ==
    \A q \in At("invoke") :
       q > p => Place(events[q]["name"]) <= Place(events[p]["name"])

\* the exception thrown at p is caught by the composite handler, which logs it
CaughtAt(p) ==
    events[p]["ev"] = "throw" =>
        /\ p < Len(events)
        /\ events[p + 1]["ev"] = "log"
        /\ events[p + 1]["val"] = events[p]["val"]

\* C14 as stated: when a handler throws or passes an error to the
\* continuation, the host's continuation is invoked with that error, no
\* handler later in the list is invoked afterwards, and the exception is
\* caught inside the composite handler.
C14_ErrorShortCircuits ==
    \A p \in 1..Len(events) :
       Fails(p) => Forwarded(p) /\ NoneInvokedAfter(p) /\ CaughtAt(p)

\* where the code departs from C14: the first handler invokes the
\* continuation and then throws, the second has scheduled its invocation of
\* the continuation, and the third is invoked after the host's continuation
\* got the first one's error
C14_Divergence ==
    /\ Len(loadedMiddlewares) = 3
    /\ loadedMiddlewares[1]["function"] = <<"call", "throw">>
    /\ loadedMiddlewares[2]["function"] = <<"defer">>
    /\ \E p \in At("throw"), q \in At("next"), r \in At("invoke") :
          /\ p < q /\ q < r
          /\ events[p]["name"] = HandlerNames[1]
          /\ events[q]["val"] = ErrorOf(HandlerNames[1])
          /\ events[r]["name"] = HandlerNames[3]

\* the handler of the event at p had invoked the continuation before p
HadPassed(p) ==
    \E q \in At("pass") : q < p /\ events[q]["name"] = events[p]["name"]

\* C15 as stated: when a handler throws, the error log names the handler
\* that threw, also when that handler had invoked the continuation before
\* it threw.
C15_LogNamesThrower ==
    \A p \in At("throw") :
       /\ p < Len(events)
       /\ events[p + 1]["ev"] = "log"
       /\ events[p + 1]["name"] = events[p]["name"]

\* where the code departs from C15: the first handler invokes the
\* continuation, the second is invoked, the first throws, and the log names
\* the second
C15_Divergence ==
    \E p \in At("throw") :
       /\ HadPassed(p)
       /\ events[p]["name"] = HandlerNames[1]
       /\ events[p + 1]["ev"] = "log"
       /\ events[p + 1]["name"] = HandlerNames[2]

\* every handler invokes the continuation exactly once, without an error,
\* at once or in a later turn
WellBehaved ==
    \A k \in 1..Len(loadedMiddlewares) :
       loadedMiddlewares[k]["function"] \in {<<"call">>, <<"defer">>}

\* the host's continuation has been invoked once, without an error, after
\* the invocation of every handler
Completed ==
    /\ Cardinality(At("next")) = 1
    /\ \A q \in At("next") :
          /\ events[q]["val"] = JsUndefined
          /\ \A k \in 1..Len(loadedMiddlewares) :
                \E p \in At("invoke") :
                   p < q /\ events[p]["name"] = loadedMiddlewares[k]["name"]

\* C16: if every handler invokes the continuation exactly once without an
\* error, a request leads to the host's continuation being invoked exactly
\* once, without an error and after every handler has been invoked, and
\* never more than once; with an empty list the host's call itself does it.
C16_ChainReachesHost ==
    /\ ((phase = "running" /\ WellBehaved) ~> Completed)
    /\ [](WellBehaved => Cardinality(At("next")) <= 1)
    /\ [](WellBehaved /\ Completed => [](Completed))
    /\ [][(phase = "idle" /\ loadedMiddlewares = <<>>) => Completed']_vars

\* a request through a full list of handlers, one of which invokes the
\* continuation in a later turn, has reached the host's continuation
C16_Witness ==
    /\ Len(loadedMiddlewares) = MaxHandlers
    /\ WellBehaved
    /\ \E k \in 1..Len(loadedMiddlewares) : loadedMiddlewares[k]["function"] = <<"defer">>
    /\ \E k \in 1..Len(loadedMiddlewares) : loadedMiddlewares[k]["function"] = <<"call">>
    /\ Completed
    /\ stack = <<>>
    /\ pending = <<>>

\* the order properties of a descriptor's own axis
OwnAxis(ext) ==
    IF ext["type"] = "middleware" THEN {"afterMiddleware", "beforeMiddleware"}
    ELSE {"afterTask", "beforeTask"}

\* the descriptor has a hint on its axis: an order property with a value
HasHint(ext) == \E key \in OwnAxis(ext) : Truthy(Get(ext, key))

\* the descriptor with the default hint of its type
WithDefault(ext) ==
    IF ext["type"] = "middleware" THEN Put(ext, "afterMiddleware", StrCompression)
    ELSE Put(ext, "afterTask", StrReplaceVersion)

\* C18: fillDefaults keeps the length and the order of the list; a
\* descriptor that has a hint on its axis is returned unchanged; one that
\* has neither gets afterMiddleware = compression if it is a middleware and
\* afterTask = replaceVersion if it is a task, and nothing else changes.
C18_FillDefaults ==
    Called("fillDefaults") =>
        /\ Len(fnOutput) = Len(fnInput)
        /\ \A i \in 1..Len(fnInput) :
              fnOutput[i] = IF HasHint(fnInput[i]) THEN fnInput[i]
                            ELSE WithDefault(fnInput[i])

\* fillDefaults has returned for a list with a middleware and a task without
\* hints, then a descriptor with only a before hint
C18_Witness ==
    /\ Called("fillDefaults")
    /\ Len(fnInput) = 3
    /\ fnInput[1]["type"] = "middleware" /\ ~HasHint(fnInput[1])
    /\ fnInput[2]["type"] = "task" /\ ~HasHint(fnInput[2])
    /\ HasHint(fnInput[3]) /\ ~Truthy(Get(fnInput[3], "afterMiddleware"))
    /\ fnInput[3]["type"] = "middleware"
    /\ fnOutput[1]["afterMiddleware"] = StrCompression
    /\ fnOutput[2]["afterTask"] = StrReplaceVersion
    /\ fnOutput[3] = fnInput[3]

\* the descriptor has both directions of one axis set
BothDirections(ext) ==
    \/ Truthy(Get(ext, "afterMiddleware")) /\ Truthy(Get(ext, "beforeMiddleware"))
    \/ Truthy(Get(ext, "afterTask")) /\ Truthy(Get(ext, "beforeTask"))

\* the outputs of the eight stages of a returned run, and its result
StageOutputs(r) ==
    {r["extensions"], r["withoutDisabled"], r["withDefaults"], r["withOverrides"],
     r["validated"], r["deduplicated"], r["sorted"], r["middleware"], r["tasks"]}

\* C19 as stated: after every stage and in the result of the pipeline no
\* descriptor has both its after and its before hint set on one axis,
\* whatever the manifests contain and whatever the override patches give.
C19_OneDirectionPerAxis ==
    Returned(cur) =>
        \A list \in StageOutputs(cur) : \A ext \in Elems(list) : ~BothDirections(ext)

\* where the code departs from C19: dep-b's manifest passes the schema with
\* an entry that gives afterMiddleware and beforeMiddleware, and the
\* descriptor is in the result with both
C19_Divergence ==
    /\ Returned(cur)
    /\ validatorAvailable
    /\ nodeModules["dep-b"] = "b/ui5-plugin-loader.json"
    /\ \E ext \in Elems(cur["middleware"]) :
          /\ ext["name"] = NameTranspileModules
          /\ ext["source"] = "package"
          /\ ext["afterMiddleware"] = StrCompression
          /\ ext["beforeMiddleware"] = StrCsp

\* the descriptor without its hints, mountPath and configuration
Stripped(ext) ==
    [k \in DOMAIN ext \cap {"name", "type", "dependency", "source"} |-> ext[k]]

\* steps 3 to 8 on a list of descriptors, for a normalized configuration
StagesFrom(extensions, normalizedConfig) ==
    SmartSort(collation,
              Deduplicate(ValidateRefs(ApplyOverride(
                  FillDefaults(ApplyDisable(extensions, normalizedConfig["disable"])),
                  normalizedConfig["override"]))))

\* runs r and q were given the same disable list
SameButOverride(r, q) ==
    /\ r["made"] /\ q["made"]
    /\ r["normalizedConfig"]["disable"] = q["normalizedConfig"]["disable"]

\* the names of the middleware and of the tasks of a sorted list, in order
NamesByType(sorted) ==
    <<Names(OfType(sorted, "middleware")), Names(OfType(sorted, "task"))>>

AnchorsOf(ext) == IF ext["type"] = "middleware" THEN BuiltinMiddleware ELSE BuiltinTasks

\* the hint key of descriptor ext names a target that is neither a descriptor
\* of list nor an anchor of ext's category
TargetUnknown(ext, key, list) ==
    /\ Truthy(Get(ext, key))
    /\ ~Includes(Names(list), Get(ext, key))
    /\ Get(ext, key) \notin AnchorsOf(ext)

\* C21: validateRefs returns the list it was given, unchanged, whatever
\* targets the hints name; a hint on the descriptor's axis whose target is
\* neither a descriptor of the list nor a built-in anchor of its category
\* leads to a warning for it, and to nothing else.
C21_ValidateRefsAdvisory ==
    Called("validateRefs") =>
        /\ fnOutput = fnInput
        /\ \A i \in 1..Len(fnInput) : \A key \in OwnAxis(fnInput[i]) :
              TargetUnknown(fnInput[i], key, fnInput)
                 <=> Includes(fnLog, [name |-> NameOf(fnInput[i]), key |-> key,
                                      target |-> Get(fnInput[i], key)])

\* validateRefs has returned a list of three in which one hint names a
\* descriptor of the list, one a built-in anchor and one an unknown target
C21_Witness ==
    /\ Called("validateRefs")
    /\ Len(fnInput) = 3
    /\ fnOutput = fnInput
    /\ Len(fnLog) = 1
    /\ \E i \in 1..3 : Get(fnInput[i], "afterTask") = NameAbc
                          /\ fnInput[i]["type"] = "task"
                          /\ Includes(Names(fnInput), NameAbc)
    /\ \E i \in 1..3 : Get(fnInput[i], "beforeMiddleware") = StrCsp
                          /\ fnInput[i]["type"] = "middleware"
    /\ fnLog[1]["target"] = NameXModules

\* a stage of the pipeline throws for these options in this environment:
\* the discovery, or the sort of what the earlier stages leave
StageThrows(options) ==
    LET discovery == DiscoverManifests(pkgJson, Files(nodeModules), Files(fallbackDir),
                                       validatorAvailable, validatorErrors)
    IN IF discovery["threw"] THEN TRUE
       ELSE StagesFrom(discovery["extensions"], LoadConfig(options))["threw"]

\* the initializer got as far as calling processPipeline
ReachedPipeline == host["made"] /\ (host["kind"] = "middleware" \/ taskUtil = "v4")

\* C22: when a stage of the pipeline throws, processPipeline throws to the
\* initializer, which throws in turn: the middleware returns no composite
\* handler, and the task has registered nothing
C22_PipelineFailureFailsInit ==
    (ReachedPipeline /\ StageThrows(host["options"])) =>
        /\ host["pipelines"] = <<"threw">>
        /\ host["status"] = "threw"
        /\ ~host["returned"]
        /\ host["calls"] = <<>>
        /\ host["registered"] = <<>>

\* the task's pipeline threw in the sort, on a release with an unnamed entry
C22_Witness ==
    /\ host["made"] /\ host["kind"] = "task" /\ taskUtil = "v4"
    /\ StageThrows(host["options"])
    /\ ~validatorAvailable
    /\ host["status"] = "threw"
    /\ host["calls"] = <<>>

\* the configuration of a descriptor or of a patch, none being the empty one
ConfigurationOf(obj) == IF "configuration" \in DOMAIN obj THEN obj["configuration"] ELSE <<>>

\* merged holds the keys of patch with the values of patch, and the other keys
\* of original with the values of original
ShallowMerged(merged, original, patch) ==
    /\ DOMAIN merged = DOMAIN original \cup DOMAIN patch
    /\ \A k \in DOMAIN patch : merged[k] = patch[k]
    /\ \A k \in DOMAIN original \ DOMAIN patch : merged[k] = original[k]

\* C23: applyOverride keeps the length and the order of the list, returns a
\* descriptor whose name has no patch as it was, merges the configuration of a
\* patch key by key over the descriptor's (the patch wins), and replaces
\* mountPath only when the patch has one
C23_ApplyOverrideMerges ==
    Called("applyOverride") =>
        /\ Len(fnOutput) = Len(fnInput)
        /\ Names(fnOutput) = Names(fnInput)
        /\ \A i \in 1..Len(fnInput) :
              IF NameOf(fnInput[i]) \notin DOMAIN fnArg
              THEN fnOutput[i] = fnInput[i]
              ELSE LET patch == fnArg[NameOf(fnInput[i])]
                   IN /\ ShallowMerged(ConfigurationOf(fnOutput[i]),
                                       ConfigurationOf(fnInput[i]),
                                       ConfigurationOf(patch))
                      /\ ("configuration" \in DOMAIN fnOutput[i])
                            <=> ("configuration" \in DOMAIN fnInput[i]
                                   \/ "configuration" \in DOMAIN patch)
                      /\ Get(fnOutput[i], "mountPath")
                            = IF "mountPath" \in DOMAIN patch
                              THEN patch["mountPath"]
                              ELSE Get(fnInput[i], "mountPath")

\* a list of three: an unpatched descriptor, a patched one whose configuration
\* shares a key with the patch and has one of its own, and a patched one with
\* a mountPath
C23_Witness ==
    /\ Called("applyOverride")
    /\ Len(fnInput) = 3
    /\ NameDup \in DOMAIN fnArg /\ NameAbc \notin DOMAIN fnArg
    /\ "configuration" \in DOMAIN fnArg[NameDup] /\ "mountPath" \in DOMAIN fnArg[NameDup]
    /\ NameOf(fnInput[1]) = NameAbc /\ "configuration" \in DOMAIN fnInput[1]
    /\ NameOf(fnInput[2]) = NameDup /\ "configuration" \in DOMAIN fnInput[2]
    /\ NameOf(fnInput[3]) = NameDup /\ Get(fnInput[3], "mountPath") = "/m"
    /\ fnOutput[1] = fnInput[1]
    /\ fnOutput[2]["configuration"] = [debug |-> TRUE, port |-> 1, extra |-> 2]
    /\ fnOutput[3]["mountPath"] = "/o"

\* the dependency names of package.json as they are enumerated: the group
\* dependencies, then the group devDependencies
Enumerated ==
    IF pkgJson["state"] = "json"
    THEN pkgJson["dependencies"] \o pkgJson["devDependencies"]
    ELSE <<>>

\* the entries of a manifest document under key, none when the key is missing
EntriesOf(doc, key) == IF key \in DOMAIN doc THEN doc[key] ELSE <<>>

\* the descriptors of one manifest in manifest-array order, the middleware
\* entries before the task entries, each with category, dependency and origin
BlockOf(doc, dep, source) ==
    LET mws == EntriesOf(doc, "middleware")
        tasks == EntriesOf(doc, "tasks")
    IN  [k \in 1..(Len(mws) + Len(tasks)) |->
            IF k <= Len(mws)
            THEN [mws[k] @@ [type |-> "middleware", dependency |-> dep, source |-> source]
                     EXCEPT !["type"] = "middleware"]
            ELSE [tasks[k - Len(mws)]
                     @@ [type |-> "task", dependency |-> dep, source |-> source]
                     EXCEPT !["type"] = "task"]]

\* what a dependency may contribute: nothing, the manifest of its package, or
\* the fallback manifest
BlocksOf(dep) ==
    {<<>>}
    \cup (IF Files(nodeModules)[dep]["state"] = "json"
          THEN {BlockOf(Files(nodeModules)[dep]["value"]["props"], dep, "package")}
          ELSE {})
    \cup (IF Files(fallbackDir)[dep]["state"] = "json"
          THEN {BlockOf(Files(fallbackDir)[dep]["value"]["props"], dep, "fallback")}
          ELSE {})

\* the concatenation of the blocks of a choice, one per enumerated dependency
RECURSIVE Concatenated(_, _)
Concatenated(choice, k) ==
    IF k > Len(choice) THEN <<>> ELSE choice[k] \o Concatenated(choice, k + 1)

\* C24: the discovered list is the concatenation, over the dependencies then
\* the devDependencies (a name of both groups counted twice), of what each
\* dependency contributes: the entries of one manifest in array order, the
\* middleware before the tasks, each with its category, its dependency and
\* its origin
C24_DiscoveryOrder ==
    Returned(cur) =>
        /\ \E choice \in [1..Len(Enumerated) ->
                              UNION {BlocksOf(d) : d \in Deps}] :
              /\ \A k \in 1..Len(Enumerated) : choice[k] \in BlocksOf(Enumerated[k])
              /\ \A k, l \in 1..Len(Enumerated) :
                    Enumerated[k] = Enumerated[l] => choice[k] = choice[l]
              /\ cur["extensions"] = Concatenated(choice, 1)
        /\ \A i \in 1..Len(cur["extensions"]) :
              /\ cur["extensions"][i]["type"] \in {"middleware", "task"}
              /\ cur["extensions"][i]["dependency"] \in Deps
              /\ cur["extensions"][i]["source"] \in {"package", "fallback"}

\* dep-b is a dependency and a devDependency, dep-a a devDependency between
\* them: the entries of dep-b are discovered before and again after those of
\* dep-a, whose middleware come before its tasks
C24_Witness ==
    /\ Returned(cur)
    /\ Enumerated = <<"dep-b", "dep-a", "dep-b">>
    /\ nodeModules["dep-a"] = "a/ui5-plugin-loader.json"
    /\ nodeModules["dep-b"] = "b/ui5-plugin-loader.json"
    /\ cur["extensions"]
         = BlockOf(DocB, "dep-b", "package") \o BlockOf(DocA, "dep-a", "package")
              \o BlockOf(DocB, "dep-b", "package")
    /\ \E i, j \in 1..Len(cur["extensions"]) :
          /\ i < j
          /\ cur["extensions"][i]["dependency"] = "dep-a"
          /\ cur["extensions"][j]["dependency"] = "dep-a"
          /\ cur["extensions"][i]["type"] = "middleware"
          /\ cur["extensions"][j]["type"] = "task"

\* the position of an entry point among the candidates
PathIndex(path) == CHOOSE k \in 1..Len(PossiblePaths) : PossiblePaths[k] = path

\* the first entry point of d's package that resolves
FirstFoundPath(d) ==
    PossiblePaths[MinOf({k \in 1..Len(LayoutOf(d)["entries"]) :
                            LayoutOf(d)["entries"][k] # "unresolvable"})]

\* C25 as stated: per middleware descriptor the entry points are probed in
\* the order lib/middleware.js, lib/livereload.js, middleware.js, index.js,
\* package main, and the first module that loads decides: its factory is
\* invoked at most once and no later entry point is loaded or invoked, also
\* when the invocation throws
C25_FirstLoadedDecides ==
    Loaded =>
        \A i \in 1..Len(host["middleware"]) :
           LET tried == host["attempts"][i]["tried"]
           IN /\ \A k, l \in 1..Len(tried) :
                    k < l => PathIndex(tried[k]) < PathIndex(tried[l])
              /\ Len(tried) <= 1
              /\ host["attempts"][i]["calls"] <= 1
              /\ tried # <<>> => tried[1] = FirstFoundPath(host["middleware"][i])

\* the factory at lib/middleware.js threw, and index.js was loaded and its
\* factory invoked for the same descriptor
C25_Divergence ==
    /\ Loaded
    /\ \E i \in 1..Len(host["middleware"]) :
          /\ FactoryThrows(host["middleware"][i])
          /\ host["attempts"][i]["tried"] = <<"lib/middleware.js", "index.js">>
          /\ host["attempts"][i]["calls"] = 2
          /\ host["attempts"][i]["outcome"] = "loaded"

\* the call of registerTask for task descriptor t: its name, its configuration
\* (an empty one when it has none) and one order property
CallFor(call, t) ==
    /\ call["name"] = NameOf(t)
    /\ call["configuration"] = ConfigurationOf(t)
    /\ \/ DOMAIN call = {"name", "configuration", "afterTask"}
       \/ DOMAIN call = {"name", "configuration", "beforeTask"}

NamedTasks == {k \in 1..Len(host["tasks"]) : Truthy(NameOf(host["tasks"][k]))}

C26_Divergence ==
    /\ Initialised("task")
    /\ \E k \in 1..Len(host["tasks"]) : ~Truthy(NameOf(host["tasks"][k]))
    /\ host["skipped"] = 1
    /\ Len(host["calls"]) = Len(host["tasks"]) - 1

Invocations == At("invoke")

\* the handlers are invoked in list order from the first: the k-th invocation
\* is that of the k-th handler
InListOrder ==
    \A q \in Invocations :
       Place(events[q]["name"]) = Cardinality({p \in Invocations : p <= q})

\* the handler before the one invoked at q had invoked the continuation
\* without an error before q
PredecessorPassed(q) ==
    Place(events[q]["name"]) > 1 =>
        \E p \in At("pass") :
           /\ p < q
           /\ Place(events[p]["name"]) = Place(events[q]["name"]) - 1
           /\ ~Truthy(events[p]["val"])

\* every handler invokes the continuation at most once
AtMostOncePerHandler ==
    \A k \in 1..Len(loadedMiddlewares) :
       Cardinality({p \in At("pass") : events[p]["name"] = loadedMiddlewares[k]["name"]}) <= 1

\* no handler is invoked twice, and none is passed over
OnceAndNoneSkipped ==
    /\ \A p, q \in Invocations : events[p]["name"] = events[q]["name"] => p = q
    /\ \A q \in Invocations :
          \A k \in 1..(Place(events[q]["name"]) - 1) :
             \E p \in Invocations : p < q /\ events[p]["name"] = loadedMiddlewares[k]["name"]

\* C27 as stated: within a request the handlers are invoked in list order
\* from the first, a handler only after the one before it has invoked the
\* continuation without an error, and, when every handler invokes the
\* continuation at most once, none is invoked twice and none is skipped
C27_StrictListOrder ==
    /\ InListOrder
    /\ \A q \in Invocations : PredecessorPassed(q)
    /\ AtMostOncePerHandler => OnceAndNoneSkipped

\* where the code departs from C27: the first handler throws a falsy value
\* without having invoked the continuation, and the second is invoked
C27_Divergence ==
    /\ Len(loadedMiddlewares) >= 2
    /\ loadedMiddlewares[1]["function"] = <<"throwFalsy">>
    /\ At("pass") = {}
    /\ \E p \in At("throw"), q \in Invocations :
          /\ p < q
          /\ events[p]["name"] = HandlerNames[1]
          /\ events[q]["name"] = HandlerNames[2]

\* the positions of the events ev of request r
AtOf(r, ev) == {p \in 1..Len(chains[r]["events"]) : chains[r]["events"][p]["ev"] = ev}

\* request r has invoked the first handlers of the list, each once, in list
\* order
InListOrderOf(r) ==
    \A q \in AtOf(r, "invoke") :
       chains[r]["events"][q]["name"]
          = loadedMiddlewares[Cardinality({p \in AtOf(r, "invoke") : p <= q})]["name"]

\* nothing is left to happen for request r
Settled(r) ==
    /\ chains[r]["phase"] = "running"
    /\ stack = <<>> \/ active # r
    /\ \A k \in 1..Len(pending) : pending[k]["request"] # r

\* request r has been through every handler and then, once, to the host's
\* continuation
TraversedAll(r) ==
    /\ Cardinality(AtOf(r, "invoke")) = Len(loadedMiddlewares)
    /\ AtOf(r, "next") = {Len(chains[r]["events"])}
    /\ chains[r]["events"][Len(chains[r]["events"])]["val"] = JsUndefined

\* C28: requests whose chains interleave do not interfere: each has its own
\* position in the chain, invokes the handlers in list order without
\* skipping or repeating one, and reaches its own host continuation once
C28_RequestsDoNotInterfere ==
    \A r \in DOMAIN chains :
       /\ InListOrderOf(r)
       /\ Cardinality(AtOf(r, "next")) <= 1
       /\ chains[r]["idx"] = Cardinality(AtOf(r, "invoke"))
       /\ Settled(r) => TraversedAll(r)

\* the first request is suspended in the second of three handlers, the
\* second request was dispatched meanwhile, was suspended in the same
\* handler, was resumed and has reached the host's continuation
C28_Witness ==
    /\ Len(loadedMiddlewares) = 3
    /\ loadedMiddlewares[2]["function"] = <<"defer">>
    /\ chains[1]["idx"] = 2
    /\ \E k \in 1..Len(pending) : pending[k]["request"] = 1
    /\ Settled(2)
    /\ TraversedAll(2)

\* C29 as stated: in a request in which every handler invokes the
\* continuation at most once, the host's continuation is invoked at most
\* once, also when a handler throws after it has invoked the continuation
C29_HostContinuationOnce ==
    AtMostOncePerHandler => Cardinality(At("next")) <= 1

\* where the code departs from C29: the only handler invokes the
\* continuation, which is the host's, and then throws: the host's
\* continuation is invoked again, with the error
C29_Divergence ==
    /\ Len(loadedMiddlewares) = 1
    /\ loadedMiddlewares[1]["function"] = <<"call", "throw">>
    /\ AtMostOncePerHandler
    /\ Cardinality(At("next")) = 2
    /\ \E p, q \in At("next") :
          /\ p < q
          /\ events[p]["val"] = JsUndefined
          /\ events[q]["val"] = ErrorOf(HandlerNames[1])

\* the descriptors processPipeline returns: its middleware and its tasks
OutputOf(r) == r["middleware"] \o r["tasks"]

\* the override of a run has a patch with an order property that is empty
\* or null
HasEmptyPatch(r) ==
    \E n \in DOMAIN r["normalizedConfig"]["override"] :
       \E key \in DOMAIN r["normalizedConfig"]["override"][n] :
          /\ key \in {"afterMiddleware", "beforeMiddleware", "afterTask", "beforeTask"}
          /\ ~Truthy(r["normalizedConfig"]["override"][n][key])

\* C30 as stated: every descriptor processPipeline returns has a non-empty
\* order property on its own axis, whatever the manifests and the override,
\* also when a patch gives an empty string or null
C30_OutputHasHint ==
    Returned(cur) =>
        \A i \in 1..Len(OutputOf(cur)) :
           \E key \in OwnAxis(OutputOf(cur)[i]) : Truthy(Get(OutputOf(cur)[i], key))

\* where the code departs from C30: the patch for dup gives afterMiddleware
\* as the empty string, and the middleware dup is returned with that value
\* and without beforeMiddleware
C30_Divergence ==
    /\ Returned(cur)
    /\ HasEmptyPatch(cur)
    /\ \E i \in 1..Len(cur["middleware"]) :
          /\ NameOf(cur["middleware"][i]) = NameDup
          /\ Get(cur["middleware"][i], "afterMiddleware") = <<>>
          /\ "beforeMiddleware" \notin DOMAIN cur["middleware"][i]
          /\ \E k \in 1..Len(cur["withDefaults"]) :
                /\ NameOf(cur["withDefaults"][k]) = NameDup
                /\ cur["withDefaults"][k]["type"] = "middleware"
                /\ \E key \in OwnAxis(cur["withDefaults"][k]) :
                      Truthy(Get(cur["withDefaults"][k], key))

====
